---- MODULE Spec2Model ----
(***************************************************************************)
(* DayPilot API: the store (users, goals, schedules, habits, habit_logs,   *)
(* daily_checkins), the request handlers that read and write it, the       *)
(* extraction of JSON from the remote model's text, and the progress       *)
(* summary arithmetic.                                                     *)
(*                                                                         *)
(* Texts are sequences of tokens.  A token is one character ("j", "{",     *)
(* " ", the backtick "BT" ...) or an atom: a substring that begins and    *)
(* ends with a character no strip call removes, such as a serialized member *)
(* ("K_hours" stands for  "total_work_hours": 6 ) or a serialized block    *)
(* object ("B_done" stands for {"block_id": "b1", ...}).                   *)
(***************************************************************************)
EXTENDS Integers, Sequences, FiniteSets, TLC

VARIABLES users, goals, schedules, habits, habit_logs, daily_checkins,
          chat_sessions, now, resp, inflight

vars == <<users, goals, schedules, habits, habit_logs, daily_checkins,
          chat_sessions, now, resp, inflight>>

store == <<users, goals, schedules, habits, habit_logs, daily_checkins,
           chat_sessions>>

(***************************************************************************)
(* str.strip / lstrip / rstrip                                             *)
(***************************************************************************)
Whitespace == {" ", "\n"}

\* The backtick character is written "BT".
FenceJsonChars == {"BT", "j", "s", "o", "n"}

FenceChars == {"BT"}

RECURSIVE lstrip(_, _)
lstrip(s, chars) ==
    IF s # <<>> /\ Head(s) \in chars THEN lstrip(Tail(s), chars) ELSE s

RECURSIVE rstrip(_, _)
rstrip(s, chars) ==
    IF s # <<>> /\ s[Len(s)] \in chars
    THEN rstrip(SubSeq(s, 1, Len(s) - 1), chars)
    ELSE s

strip(s, chars) == rstrip(lstrip(s, chars), chars)

\* A mutant of Clean: the closing fence is left in place.
CleanNoRstrip(text) ==
    strip(lstrip(lstrip(strip(text, Whitespace), FenceJsonChars), FenceChars),
          Whitespace)

\* ai_response.strip().lstrip("```json").lstrip("```").rstrip("```").strip()
Clean(text) ==
    strip(rstrip(lstrip(lstrip(strip(text, Whitespace), FenceJsonChars),
                        FenceChars),
                 FenceChars),
          Whitespace)

\* raw.strip().strip("```json").strip("```").strip()
CleanCoach(text) ==
    strip(strip(strip(strip(text, Whitespace), FenceJsonChars), FenceChars),
          Whitespace)

(***************************************************************************)
(* Time blocks.  Times of day are zero-padded "HH:MM" strings, which       *)
(* compare as strings the way their minutes since midnight compare as      *)
(* numbers: a time is written as its minutes since midnight.  ABSENT marks *)
(* a key the JSON object does not have.                                    *)
(***************************************************************************)
ABSENT == "<absent>"

TaskStatus == {"pending", "in_progress", "completed", "skipped", "rescheduled"}

Block(id, title, start, end, cat, status) ==
    [block_id |-> id, title |-> title, start_time |-> start, end_time |-> end,
     category |-> cat, status |-> status, completion_note |-> ABSENT,
     goal_id |-> ABSENT]

\* The block objects the remote model's replies are built from.
BlockAtoms == {"B_early", "B_late", "B_noid", "B_notitle", "B_done", "B_long",
               "B_goal"}

BlockOf(atom) ==
    CASE atom = "B_early"   -> Block("b1", "t", 540, 600, "work", "pending")
      [] atom = "B_late"    -> Block("b2", "t", 900, 960, "meal", "pending")
      [] atom = "B_noid"    -> Block(ABSENT, "t", 900, 960, "work", "pending")
      [] atom = "B_notitle" -> Block("b3", ABSENT, 900, 960, "work", "pending")
      [] atom = "B_done"    -> Block("b4", "t", 600, 480, "study", "completed")
      [] atom = "B_long"    -> Block("b5", "t", 0, 1050, "work", "skipped")
      [] atom = "B_goal"    -> [Block("b6", "t", 900, 960, "work", "pending")
                                   EXCEPT !.goal_id = "uuid-1"]

(***************************************************************************)
(* json.loads, on the JSON texts the model can write: an object whose      *)
(* members are among time_blocks, total_work_hours, ai_notes, reply,       *)
(* suggested_actions, recommendation; an array of items; null.             *)
(***************************************************************************)
MemberAtoms == {"K_hours", "K_notes", "K_reply", "K_actions", "K_recommend"}

ItemAtoms == BlockAtoms \cup {"I_week1", "I_week2"}

\* A parsed value: the members of an object (time_blocks as block records),
\* the items of an array.  text is the raw reply a fallback dict carries.
JsonValue(kind, keys, blocks, items) ==
    [kind |-> kind, keys |-> keys, time_blocks |-> blocks, items |-> items,
     ai_notes |-> IF "K_notes" \in keys THEN "model note" ELSE ABSENT,
     fallback |-> FALSE, text |-> <<>>]

\* The dict an except branch builds in place of the parsed reply.
Fallback(keys, blocks, notes, raw) ==
    [kind |-> "object", keys |-> keys, time_blocks |-> blocks, items |-> <<>>,
     ai_notes |-> notes, fallback |-> TRUE, text |-> raw]

JSONDecodeError == JsonValue("error", {}, <<>>, <<>>)

RECURSIVE IndexOf(_, _, _)
IndexOf(s, tok, from) ==
    IF from > Len(s) THEN 0
    ELSE IF s[from] = tok THEN from
    ELSE IndexOf(s, tok, from + 1)

AllIn(s, set) == \A i \in 1..Len(s) : s[i] \in set

RECURSIVE ParseMembers(_, _)
ParseMembers(s, acc) ==
    IF s = <<>> THEN acc
    ELSE IF Head(s) \in MemberAtoms
    THEN ParseMembers(Tail(s),
                      [acc EXCEPT !.keys = @ \cup {Head(s)},
                                  !.ai_notes = IF Head(s) = "K_notes"
                                               THEN "model note" ELSE @])
    ELSE IF Head(s) = "K_blocks" /\ Len(s) >= 3 /\ s[2] = "["
    THEN LET close == IndexOf(s, "]", 3)
             elems == SubSeq(s, 3, close - 1)
         IN  IF close = 0 \/ ~AllIn(elems, BlockAtoms)
             THEN JSONDecodeError
             ELSE ParseMembers(SubSeq(s, close + 1, Len(s)),
                               [acc EXCEPT !.keys = @ \cup {"K_blocks"},
                                           !.time_blocks =
                                               [i \in 1..Len(elems) |->
                                                   BlockOf(elems[i])]])
    ELSE JSONDecodeError

json_loads(text) ==
    LET s == strip(text, Whitespace)
        n == Len(s)
    IN  IF n >= 2 /\ s[1] = "{" /\ s[n] = "}"
        THEN ParseMembers(SubSeq(s, 2, n - 1), JsonValue("object", {}, <<>>, <<>>))
        ELSE IF n >= 2 /\ s[1] = "[" /\ s[n] = "]"
                  /\ AllIn(SubSeq(s, 2, n - 1), ItemAtoms)
        THEN JsonValue("array", {}, <<>>, SubSeq(s, 2, n - 1))
        ELSE IF s = <<"n", "u", "l", "l">>
        THEN JsonValue("null", {}, <<>>, <<>>)
        ELSE JSONDecodeError

(***************************************************************************)
(* Response extraction, one operator per site.                             *)
(***************************************************************************)
Sites == {"schedule", "roadmap", "habits", "reschedule", "simulate", "coach"}

EmptyList == JsonValue("array", {}, <<>>, <<>>)

\* schedule_service.generate_schedule, step 5
parse_schedule(ai_response) ==
    LET parsed == json_loads(Clean(ai_response))
    IN  IF parsed.kind = "error"
        THEN Fallback({"K_blocks", "K_hours", "K_notes"}, <<>>, "Parsing failed.", <<>>)
        ELSE parsed

\* goal_service.create_goal
parse_roadmap(roadmap_raw) ==
    LET roadmap == json_loads(Clean(roadmap_raw))
    IN  IF roadmap.kind = "error" THEN EmptyList ELSE roadmap

\* routers/habits.api_suggest_habits
parse_suggestions(result) ==
    LET parsed == json_loads(Clean(result))
    IN  IF parsed.kind = "error" THEN EmptyList ELSE parsed

\* A mutant of parse_reschedule: the except branch keeps no block.
parse_reschedule_empty(ai_response, remaining) ==
    LET parsed == json_loads(Clean(ai_response))
    IN  IF parsed.kind = "error"
        THEN Fallback({"K_blocks", "K_notes"}, <<>>, "No change.", <<>>)
        ELSE parsed

\* schedule_service.adaptive_reschedule_today; remaining: the dumped
\* remaining blocks
parse_reschedule(ai_response, remaining) ==
    LET parsed == json_loads(Clean(ai_response))
    IN  IF parsed.kind = "error"
        THEN Fallback({"K_blocks", "K_notes"}, remaining, "No change.", <<>>)
        ELSE parsed

\* routers/goals.api_simulate_scenario
parse_simulation(result) ==
    LET parsed == json_loads(Clean(result))
    IN  IF parsed.kind = "error"
        THEN Fallback({"K_scenario", "K_recommend"}, <<>>, ABSENT, result)
        ELSE parsed

\* planner_agent.run_coach
run_coach(raw) ==
    LET parsed == json_loads(CleanCoach(raw))
    IN  IF parsed.kind = "error"
        THEN Fallback({"K_reply", "K_actions"}, <<>>, ABSENT, raw)
        ELSE parsed

ExtractAt(site, text) ==
    CASE site = "schedule"   -> parse_schedule(text)
      [] site = "roadmap"    -> parse_roadmap(text)
      [] site = "habits"     -> parse_suggestions(text)
      [] site = "reschedule" -> parse_reschedule(text, <<>>)
      [] site = "simulate"   -> parse_simulation(text)
      [] site = "coach"      -> run_coach(text)

(***************************************************************************)
(* The texts of the remote model.                                          *)
(***************************************************************************)
JsonObjects ==
    { <<"{", "}">>,
      <<"{", "K_blocks", "[", "]", "}">>,
      <<"{", "K_blocks", "[", "B_early", "B_late", "]", "K_hours", "K_notes", "}">>,
      <<"{", "K_reply", "K_actions", "}">>,
      <<"{", "K_recommend", "}">> }

JsonOthers ==
    { <<"[", "]">>, <<"[", "I_week1", "I_week2", "]">>, <<"n", "u", "l", "l">> }

NonJson ==
    { <<"s", "o", "r", "r", "y">>, <<"n", "o">>, <<"{", "K_blocks", "[", "}">>,
      <<"j", "s", "o", "n", " ", "{", "}">> }

FenceOpen == <<"BT", "BT", "BT", "j", "s", "o", "n">>

FenceClose == <<"BT", "BT", "BT">>

Openers == { <<>>, FenceOpen, FenceOpen \o <<"\n">>, <<" ">> \o FenceOpen \o <<"\n">>,
             <<"BT", "BT", "BT", "\n">> }

Closers == { <<>>, FenceClose, <<"\n">> \o FenceClose, <<"\n">> \o FenceClose \o <<"\n">> }

\* The wrappers that are a json fence: an opening fence with the json tag and
\* a closing fence, with or without line breaks around them.
JsonFenced(open, close) ==
    /\ open \in {FenceOpen, FenceOpen \o <<"\n">>, <<" ">> \o FenceOpen \o <<"\n">>}
    /\ close # <<>>

(***************************************************************************)
(* The store.  Every table is the sequence of its rows in insertion order. *)
(* A uuid4 is a fresh value: uuid(n) for a number n used once.             *)
(***************************************************************************)
MaxRows == 2

today == 0

UserIds == {"u1", "u2"}

ScheduleDates == {today, today + 1}

\* The times of day at which requests arrive: 12:00 and 18:00.
ClockTimes == {720, 1080}

uuid(n) == "uuid-" \o ToString(n)

ScheduleRows(user_id, date) ==
    {i \in 1..Len(schedules) :
        schedules[i].user_id = user_id /\ schedules[i].date = date}

\* One request to the remote model: its text, or an exception.
RemoteError == [ok |-> FALSE, text |-> <<>>]

Remote(texts) == {[ok |-> TRUE, text |-> t] : t \in texts} \cup {RemoteError}

NoResponse == [op |-> "none"]

\* What a request answered: the HTTP status, the number of calls it made to
\* the remote model, and the schedule (id and blocks) of a 200 answer.
Response(op, code, user_id, calls, schedule_id, blocks) ==
    [op |-> op, code |-> code, user_id |-> user_id, calls |-> calls,
     schedule_id |-> schedule_id, time_blocks |-> blocks]

(***************************************************************************)
(* models/schemas.TimeBlock                                                *)
(***************************************************************************)
\* TimeBlock(**b) raises ValidationError unless this holds.
TimeBlockValid(b) ==
    /\ b.block_id # ABSENT
    /\ b.title # ABSENT
    /\ b.status \in TaskStatus

\* TimeBlock(**b).model_dump(): the declared fields, extra keys dropped.
TimeBlock(b) == [b EXCEPT !.completion_note = ABSENT]

TimeBlocks(blocks) == [i \in 1..Len(blocks) |-> TimeBlock(blocks[i])]

AllValid(blocks) == \A i \in 1..Len(blocks) : TimeBlockValid(blocks[i])

\* parsed.get("total_work_hours", 0.0), in hours
total_work_hours(parsed) ==
    IF "K_hours" \in parsed.keys /\ ~parsed.fallback THEN 6 ELSE 0

\* parsed.get("ai_notes")
ai_notes(parsed) == parsed.ai_notes

(***************************************************************************)
(* routers/users.api_register_user                                         *)
(***************************************************************************)
RegisterUser(u) ==
    /\ u \notin users
    /\ users' = users \cup {u}
    /\ resp' = Response("register", 200, u, 0, ABSENT, <<>>)
    /\ UNCHANGED <<goals, schedules, habits, habit_logs, daily_checkins,
                   chat_sessions, now, inflight>>

\* The wall clock moves on between two requests.
Tick ==
    /\ \E t \in ClockTimes : t > now /\ now' = t
    /\ resp' = NoResponse
    /\ UNCHANGED <<store, inflight>>

(***************************************************************************)
(* schedule_service.generate_schedule behind routers/schedule              *)
(***************************************************************************)
ScheduleTexts ==
    { FenceOpen \o <<"\n", "{", "K_blocks", "[", "B_early", "B_late", "]",
                     "K_hours", "K_notes", "}", "\n">> \o FenceClose,
      <<"{", "K_blocks", "[", "B_noid", "B_done", "]", "}">>,
      <<"{", "K_blocks", "[", "B_notitle", "]", "}">>,
      <<"{", "}">>,
      <<"[", "]">>,
      <<"s", "o", "r", "r", "y">> }

\* A mutant of AssignBlockIds: the blocks are stored as the model gave them.
AssignBlockIdsNone(blocks, base) == blocks

\* for block in time_blocks: if not block.get("block_id"): block["block_id"] = uuid4
AssignBlockIds(blocks, base) ==
    [i \in 1..Len(blocks) |->
        IF blocks[i].block_id = ABSENT
        THEN [blocks[i] EXCEPT !.block_id = uuid(base + i)]
        ELSE blocks[i]]

\* INSERT OR REPLACE INTO schedules: the only key of the table is schedule_id
InsertSchedule(table, row) ==
    IF \E i \in 1..Len(table) : table[i].schedule_id = row.schedule_id
    THEN [i \in 1..Len(table) |->
            IF table[i].schedule_id = row.schedule_id THEN row ELSE table[i]]
    ELSE Append(table, row)

\* A mutant of generate_schedule: a missing profile is read as an empty one.
generate_schedule_any_user(user_id, date, remote) ==
    /\ Len(schedules) < MaxRows
    /\ LET parsed == parse_schedule(remote.text)
           n      == Len(schedules) + 1
           blocks == AssignBlockIds(parsed.time_blocks, 10 * n)
           row    == [schedule_id |-> uuid(10 * n), user_id |-> user_id,
                      date |-> date, time_blocks |-> blocks,
                      total_work_hrs |-> total_work_hours(parsed),
                      ai_notes |-> ai_notes(parsed)]
       IN  IF ~remote.ok \/ parsed.kind # "object"
           THEN \* the remote call raises, or parsed.get raises AttributeError
                /\ resp' = Response("generate", 500, user_id, 1, ABSENT, <<>>)
                /\ UNCHANGED schedules
           ELSE /\ schedules' = InsertSchedule(schedules, row)
                /\ resp' = IF AllValid(blocks)
                           THEN Response("generate", 200, user_id, 1,
                                         row.schedule_id, TimeBlocks(blocks))
                           ELSE \* ValidationError is a ValueError
                                Response("generate", 404, user_id, 1, ABSENT, <<>>)
    /\ UNCHANGED <<users, goals, habits, habit_logs, daily_checkins,
                   chat_sessions, now>>

\* generate_schedule behind api_generate_schedule, from the reply of the
\* remote model on
generate_schedule(user_id, date, remote) ==
    /\ Len(schedules) < MaxRows
    /\ LET parsed == parse_schedule(remote.text)
           n      == Len(schedules) + 1
           blocks == AssignBlockIds(parsed.time_blocks, 10 * n)
           row    == [schedule_id |-> uuid(10 * n), user_id |-> user_id,
                      date |-> date, time_blocks |-> blocks,
                      total_work_hrs |-> total_work_hours(parsed),
                      ai_notes |-> ai_notes(parsed)]
       IN  IF user_id \notin users
           THEN \* ValueError before the remote call
                /\ resp' = Response("generate", 404, user_id, 0, ABSENT, <<>>)
                /\ UNCHANGED schedules
           ELSE IF ~remote.ok \/ parsed.kind # "object"
           THEN \* the remote call raises, or parsed.get raises AttributeError
                /\ resp' = Response("generate", 500, user_id, 1, ABSENT, <<>>)
                /\ UNCHANGED schedules
           ELSE /\ schedules' = InsertSchedule(schedules, row)
                /\ resp' = IF AllValid(blocks)
                           THEN Response("generate", 200, user_id, 1,
                                         row.schedule_id, TimeBlocks(blocks))
                           ELSE \* ValidationError is a ValueError
                                Response("generate", 404, user_id, 1, ABSENT, <<>>)
    /\ UNCHANGED <<users, goals, habits, habit_logs, daily_checkins,
                   chat_sessions, now>>

\* a request served from its start to its answer with no other in between
GenerateSchedule(user_id, date, remote) ==
    generate_schedule(user_id, date, remote) /\ UNCHANGED inflight

(***************************************************************************)
(* schedule_service.get_schedule behind routers/schedule.api_get_schedule  *)
(***************************************************************************)
GetSchedule(user_id, date) ==
    /\ IF ScheduleRows(user_id, date) = {}
       THEN resp' = Response("get", 404, user_id, 0, ABSENT, <<>>)
       ELSE \* fetchone() of a SELECT without ORDER BY: any matching row
            \E i \in ScheduleRows(user_id, date) :
               resp' = IF AllValid(schedules[i].time_blocks)
                       THEN Response("get", 200, user_id, 0,
                                     schedules[i].schedule_id,
                                     TimeBlocks(schedules[i].time_blocks))
                       ELSE Response("get", 500, user_id, 0, ABSENT, <<>>)
    /\ UNCHANGED <<store, now, inflight>>

(***************************************************************************)
(* schedule_service.update_task_status behind api_update_task              *)
(***************************************************************************)
CompletionNotes == {ABSENT, "note"}

RECURSIVE FirstWithId(_, _, _)
FirstWithId(blocks, block_id, from) ==
    IF from > Len(blocks) THEN 0
    ELSE IF blocks[from].block_id = block_id THEN from
    ELSE FirstWithId(blocks, block_id, from + 1)

\* A mutant of SetStatus: every block of the list gets the status.
SetStatusAll(blocks, k, status, note) ==
    [j \in 1..Len(blocks) |->
        [blocks[j] EXCEPT !.status = status,
                          !.completion_note = IF note # ABSENT THEN note ELSE @]]

\* for b in blocks: if b["block_id"] == update.block_id: ...; break
SetStatus(blocks, k, status, note) ==
    [blocks EXCEPT ![k] = [@ EXCEPT !.status = status,
                                    !.completion_note =
                                        IF note # ABSENT THEN note ELSE @]]

UpdateTaskStatus(user_id, block_id, status, note) ==
    /\ IF ScheduleRows(user_id, today) = {}
       THEN /\ resp' = Response("update_task", 404, user_id, 0, ABSENT, <<>>)
            /\ UNCHANGED schedules
       ELSE \E i \in ScheduleRows(user_id, today) :
               LET k == FirstWithId(schedules[i].time_blocks, block_id, 1)
               IN  IF k = 0
                   THEN /\ resp' = Response("update_task", 404, user_id, 0,
                                            ABSENT, <<>>)
                        /\ UNCHANGED schedules
                   ELSE \* UPDATE schedules ... WHERE schedule_id = ?
                        /\ schedules' =
                              [schedules EXCEPT ![i].time_blocks =
                                  SetStatus(@, k, status, note)]
                        /\ resp' = Response("update_task", 200, user_id, 0,
                                            schedules[i].schedule_id, <<>>)
    /\ UNCHANGED <<users, goals, habits, habit_logs, daily_checkins,
                   chat_sessions, now, inflight>>

(***************************************************************************)
(* schedule_service.adaptive_reschedule_today behind api_reschedule        *)
(***************************************************************************)
RescheduleTexts ==
    { <<"{", "K_blocks", "[", "B_late", "]", "K_notes", "}">>,
      <<"{", "K_blocks", "[", "B_noid", "]", "}">>,
      FenceOpen \o <<"{", "}">> \o FenceClose,
      <<"n", "u", "l", "l">>,
      <<"s", "o", "r", "r", "y">> }

\* b.status in ("pending", "skipped") and b.end_time < now_str
Missed(b, now_str) == b.status \in {"pending", "skipped"} /\ b.end_time < now_str

\* b.end_time >= now_str and b.status == "pending"
Remaining(b, now_str) == b.end_time >= now_str /\ b.status = "pending"

\* A mutant of missed_blocks: the end time is not looked at.
missed_blocks_any_time(blocks, now_str) ==
    SelectSeq(blocks, LAMBDA b : b.status \in {"pending", "skipped"})

missed_blocks(blocks, now_str) == SelectSeq(blocks, LAMBDA b : Missed(b, now_str))

\* A mutant of remaining_blocks: every block that is not completed and has
\* not ended counts as remaining.
remaining_blocks_not_done(blocks, now_str) ==
    SelectSeq(blocks, LAMBDA b : b.end_time >= now_str /\ b.status # "completed")

remaining_blocks(blocks, now_str) ==
    SelectSeq(blocks, LAMBDA b : Remaining(b, now_str))

completed_blocks(blocks) == SelectSeq(blocks, LAMBDA b : b.status = "completed")

\* UPDATE schedules SET time_blocks = ?, ai_notes = ? WHERE user_id = ? AND date = ?
UpdateSchedules(table, user_id, date, blocks, notes) ==
    [i \in 1..Len(table) |->
        IF table[i].user_id = user_id /\ table[i].date = date
        THEN [table[i] EXCEPT !.time_blocks = blocks, !.ai_notes = notes]
        ELSE table[i]]

Reschedule(user_id, remote) ==
    /\ IF ScheduleRows(user_id, today) = {}
       THEN /\ resp' = Response("reschedule", 404, user_id, 0, ABSENT, <<>>)
            /\ UNCHANGED schedules
       ELSE \E i \in ScheduleRows(user_id, today) :
          LET stored    == schedules[i].time_blocks
              schedule  == TimeBlocks(stored)
              missed    == missed_blocks(schedule, now)
              remaining == remaining_blocks(schedule, now)
              parsed    == parse_reschedule(remote.text, remaining)
              new_blocks == completed_blocks(schedule)
                                \o TimeBlocks(parsed.time_blocks)
          IN  IF ~AllValid(stored)
              THEN \* get_schedule raises ValidationError, a ValueError
                   /\ resp' = Response("reschedule", 404, user_id, 0, ABSENT, <<>>)
                   /\ UNCHANGED schedules
              ELSE IF missed = <<>>
              THEN /\ resp' = Response("reschedule", 200, user_id, 0,
                                       schedules[i].schedule_id, schedule)
                   /\ UNCHANGED schedules
              ELSE IF ~remote.ok \/ parsed.kind # "object"
              THEN \* neither is a ValueError: the handler does not catch it
                   /\ resp' = Response("reschedule", 500, user_id, 1, ABSENT, <<>>)
                   /\ UNCHANGED schedules
              ELSE IF ~AllValid(parsed.time_blocks)
              THEN /\ resp' = Response("reschedule", 404, user_id, 1, ABSENT, <<>>)
                   /\ UNCHANGED schedules
              ELSE /\ schedules' = UpdateSchedules(schedules, user_id, today,
                                                   new_blocks, ai_notes(parsed))
                   /\ resp' = Response("reschedule", 200, user_id, 1,
                                       schedules[i].schedule_id, new_blocks)
    /\ UNCHANGED <<users, goals, habits, habit_logs, daily_checkins,
                   chat_sessions, now, inflight>>

InitStore ==
    /\ users = {}
    /\ goals = <<>>
    /\ schedules = <<>>
    /\ habits = <<>>
    /\ habit_logs = <<>>
    /\ daily_checkins = <<>>
    /\ chat_sessions = <<>>
    /\ inflight = {}
    /\ now \in ClockTimes

Init ==
    /\ InitStore
    /\ resp = NoResponse

(***************************************************************************)
(* Spec: schedule generation and retrieval.                                *)
(***************************************************************************)
Next ==
    \/ \E u \in UserIds : RegisterUser(u)
    \/ Tick
    \/ \E u \in UserIds, d \in ScheduleDates, r \in Remote(ScheduleTexts) :
          GenerateSchedule(u, d, r)
    \/ \E u \in UserIds, d \in ScheduleDates : GetSchedule(u, d)

Spec == Init /\ [][Next]_vars

(***************************************************************************)
(* SpecTask: task updates over several schedules, of two users and two     *)
(* dates, whose lists hold one block_id twice.                             *)
(***************************************************************************)
TaskText == <<"{", "K_blocks", "[", "B_early", "B_early", "B_late", "]", "}">>

TaskBlockIds == {"b1", "b2", "b9"}

NextTask ==
    \/ \E u \in UserIds : RegisterUser(u)
    \/ \E u \in UserIds, d \in ScheduleDates :
          GenerateSchedule(u, d, [ok |-> TRUE, text |-> TaskText])
    \/ \E u \in UserIds, b \in TaskBlockIds :
          UpdateTaskStatus(u, b, "completed", "note")

InitTask == Init /\ now = 720

SpecTask == InitTask /\ [][NextTask]_vars

(***************************************************************************)
(* SpecTyped: replies that are JSON objects whose block lacks the title,   *)
(* a required field of TimeBlock, next to well-formed ones.                *)
(***************************************************************************)
Untitled == <<"{", "K_blocks", "[", "B_notitle", "]", "}">>

Titled == <<"{", "K_blocks", "[", "B_early", "B_late", "]", "}">>

NextTyped ==
    \/ \E u \in UserIds : RegisterUser(u)
    \/ \E d \in ScheduleDates, r \in Remote({Titled, Untitled}) :
          GenerateSchedule("u1", d, r)
    \/ \E r \in Remote({Titled, Untitled}) : Reschedule("u1", r)
    \/ \E d \in ScheduleDates : GetSchedule("u1", d)

InitTyped == Init /\ now = 720

SpecTyped == InitTyped /\ [][NextTyped]_vars

(***************************************************************************)
(* SpecDay: one day of a schedule: generation, task updates, reschedule.   *)
(***************************************************************************)
MaxDayRows == 1

TaskUpdates ==
    {[block_id |-> b, status |-> u[1], completion_note |-> u[2]] :
        b \in {"b1", "b2", "b9"},
        u \in {<<"completed", "note">>, <<"skipped", ABSENT>>}}

NextDay ==
    \/ RegisterUser("u1")
    \/ Tick
    \/ \E d \in ScheduleDates, r \in Remote(ScheduleTexts) :
          Len(schedules) < MaxDayRows /\ GenerateSchedule("u1", d, r)
    \/ \E u \in UserIds, d \in ScheduleDates : GetSchedule(u, d)
    \/ \E u \in UserIds, t \in TaskUpdates :
          UpdateTaskStatus(u, t.block_id, t.status, t.completion_note)
    \/ \E u \in UserIds, r \in Remote(RescheduleTexts) : Reschedule(u, r)

SpecDay == Init /\ [][NextDay]_vars

(***************************************************************************)
(* SpecMissed: a day at noon with a completed block, a block that has      *)
(* ended and a block still ahead, whose statuses the user sets before      *)
(* asking for a reschedule.                                                *)
(***************************************************************************)
MissedText == <<"{", "K_blocks", "[", "B_done", "B_early", "B_late", "]", "}">>

MissedReplies == { <<"s", "o", "r", "r", "y">>, <<"{", "K_blocks", "[", "B_late", "]", "}">> }

MissedUpdates ==
    { <<"b1", "skipped">>, <<"b2", "skipped">>, <<"b2", "in_progress">>,
      <<"b2", "rescheduled">> }

NextMissed ==
    \/ \E u \in UserIds : RegisterUser(u)
    \/ \E u \in UserIds :
          /\ Len(schedules) < MaxDayRows
          /\ GenerateSchedule(u, today, [ok |-> TRUE, text |-> MissedText])
    \/ \E u \in UserIds, t \in MissedUpdates : UpdateTaskStatus(u, t[1], t[2], ABSENT)
    \/ \E u \in UserIds, r \in Remote(MissedReplies) : Reschedule(u, r)
    \/ \E u \in UserIds : GetSchedule(u, today)

InitMissed == Init /\ now = 720

SpecMissed == InitMissed /\ [][NextMissed]_vars

(***************************************************************************)
(* SpecHabit: routers/habits: create, check-in, delete.                    *)
(***************************************************************************)
MaxLogs == 3

\* The identifiers uuid4 can give a habit, and requests can name.
HabitIds == {uuid(1), uuid(2)}

HabitRows(habit_id) == {i \in 1..Len(habits) : habits[i].habit_id = habit_id}

LoggedHabitIds == {habit_logs[i].habit_id : i \in 1..Len(habit_logs)}

\* uuid4(): an identifier no row and no request has held before
FreshHabitIds == {h \in HabitIds : HabitRows(h) = {} /\ h \notin LoggedHabitIds}

HabitResponse(op, user_id, habit_id, completed) ==
    [op |-> op, code |-> 200, user_id |-> user_id, habit_id |-> habit_id,
     completed |-> completed]

\* api_create_habit: INSERT INTO habits ... streak_count 0; last_completed NULL;
\* goal_id is the request's, stored as given
create_habit(user_id, title, goal_id) ==
    /\ \E h \in FreshHabitIds :
          /\ habits' = Append(habits, [habit_id |-> h, user_id |-> user_id,
                                       title |-> title, goal_id |-> goal_id,
                                       streak_count |-> 0,
                                       last_completed |-> <<>>])
          /\ resp' = HabitResponse("create_habit", user_id, h, FALSE)
    /\ UNCHANGED <<users, goals, schedules, habit_logs, daily_checkins,
                   chat_sessions, now, inflight>>

\* HabitCreate.goal_id: Optional[str] = None
CreateHabit(user_id, title) == create_habit(user_id, title, ABSENT)

\* A mutant of CheckedIn: a missed check-in leaves the streak as it is.
CheckedInNoReset(row, completed, date) ==
    IF completed
    THEN [row EXCEPT !.streak_count = @ + 1, !.last_completed = <<date>>]
    ELSE row

\* A mutant of CheckedIn: the streak is written as one more than the value a
\* new habit has.
CheckedInFromZero(row, completed, date) ==
    IF completed
    THEN [row EXCEPT !.streak_count = 1, !.last_completed = <<date>>]
    ELSE [row EXCEPT !.streak_count = 0]

\* UPDATE habits SET streak_count = streak_count + 1, last_completed = ?
\* UPDATE habits SET streak_count = 0
CheckedIn(row, completed, date) ==
    IF completed
    THEN [row EXCEPT !.streak_count = @ + 1, !.last_completed = <<date>>]
    ELSE [row EXCEPT !.streak_count = 0]

\* A mutant of HabitCheckin: only a habit of the user is updated.
HabitCheckinOwned(user_id, habit_id, completed, date) ==
    /\ Len(habit_logs) < MaxLogs
    /\ habit_logs' = Append(habit_logs,
                            [habit_id |-> habit_id, user_id |-> user_id,
                             date |-> date, completed |-> completed])
    /\ habits' = [i \in 1..Len(habits) |->
                    IF habits[i].habit_id = habit_id /\ habits[i].user_id = user_id
                    THEN CheckedIn(habits[i], completed, date)
                    ELSE habits[i]]
    /\ resp' = HabitResponse("checkin", user_id, habit_id, completed)
    /\ UNCHANGED <<users, goals, schedules, daily_checkins, chat_sessions, now,
                   inflight>>

\* api_habit_checkin: the log row and the update are committed together
habit_checkin(user_id, habit_id, completed, date) ==
    /\ Len(habit_logs) < MaxLogs
    /\ habit_logs' = Append(habit_logs,
                            [habit_id |-> habit_id, user_id |-> user_id,
                             date |-> date, completed |-> completed])
    /\ habits' = [i \in 1..Len(habits) |->
                    IF habits[i].habit_id = habit_id
                    THEN CheckedIn(habits[i], completed, date)
                    ELSE habits[i]]
    /\ resp' = HabitResponse("checkin", user_id, habit_id, completed)
    /\ UNCHANGED <<users, goals, schedules, daily_checkins, chat_sessions, now>>

\* a request served from its start to its answer with no other in between
HabitCheckin(user_id, habit_id, completed, date) ==
    habit_checkin(user_id, habit_id, completed, date) /\ UNCHANGED inflight

\* api_delete_habit: DELETE FROM habits WHERE habit_id = ? AND user_id = ?
DeleteHabit(user_id, habit_id) ==
    /\ habits' = SelectSeq(habits, LAMBDA r :
                    ~(r.habit_id = habit_id /\ r.user_id = user_id))
    /\ resp' = HabitResponse("delete_habit", user_id, habit_id, FALSE)
    /\ UNCHANGED <<users, goals, schedules, habit_logs, daily_checkins,
                   chat_sessions, now, inflight>>

NextHabit ==
    \/ \E u \in UserIds : CreateHabit(u, "read")
    \/ \E u \in UserIds, h \in HabitIds, c \in BOOLEAN : HabitCheckin(u, h, c, today)
    \/ \E u \in UserIds, h \in HabitIds : DeleteHabit(u, h)

SpecHabit == Init /\ [][NextHabit]_vars

(***************************************************************************)
(* services/progress_service: check-ins and the progress summary.          *)
(* Rates and scores are kept in thousandths (round(x, 3) * 1000), hours in *)
(* minutes.                                                                *)
(***************************************************************************)
MaxCheckins == 2

EnergyLevel == {"low", "medium", "high"}

\* DailyCheckIn: energy_level an EnergyLevel, mood_score and focus_score in 1..10
DailyCheckInValid(c) ==
    /\ c.energy_level \in EnergyLevel
    /\ c.mood_score >= 1 /\ c.mood_score <= 10
    /\ c.focus_score >= 1 /\ c.focus_score <= 10

\* log_checkin behind api_checkin; a body that fails validation is answered
\* 422 before the handler runs
LogCheckin(checkin) ==
    /\ Len(daily_checkins) < MaxCheckins
    /\ IF DailyCheckInValid(checkin)
       THEN /\ daily_checkins' = Append(daily_checkins, checkin)
            /\ resp' = Response("checkin", 200, checkin.user_id, 0, ABSENT, <<>>)
       ELSE /\ resp' = Response("checkin", 422, checkin.user_id, 0, ABSENT, <<>>)
            /\ UNCHANGED daily_checkins
    /\ UNCHANGED <<users, goals, schedules, habits, habit_logs, chat_sessions, now,
                   inflight>>

\* days = 7 if period == "weekly" else 30
Days(period) == IF period = "weekly" THEN 7 ELSE 30

RECURSIVE SumSeq(_)
SumSeq(s) == IF s = <<>> THEN 0 ELSE Head(s) + SumSeq(Tail(s))

Sum(s, f(_)) == SumSeq([i \in 1..Len(s) |-> f(s[i])])

RECURSIVE Flatten(_)
Flatten(ss) == IF ss = <<>> THEN <<>> ELSE Head(ss) \o Flatten(Tail(ss))

Max(a, b) == IF a >= b THEN a ELSE b

Min(a, b) == IF a <= b THEN a ELSE b

\* SELECT time_blocks FROM schedules WHERE user_id = ? AND date >= ?
WindowBlocks(user_id, days) ==
    LET rows == SelectSeq(schedules, LAMBDA r :
                    r.user_id = user_id /\ r.date >= today - days)
    IN  Flatten([i \in 1..Len(rows) |-> rows[i].time_blocks])

\* SELECT ... FROM daily_checkins WHERE user_id = ? AND date >= ?
WindowCheckins(user_id, days) ==
    SelectSeq(daily_checkins, LAMBDA c :
        c.user_id = user_id /\ c.date >= today - days)

\* A mutant of duration_minutes: a block that ends before it starts counts
\* with its negative length.
duration_minutes_signed(b) == b.end_time - b.start_time

\* max(0, duration_hrs), in minutes
duration_minutes(b) == Max(0, b.end_time - b.start_time)

\* category_hours.get(cat, 0), in minutes
category_minutes(blocks, cat) ==
    Sum(SelectSeq(blocks, LAMBDA b : b.category = cat), duration_minutes)

Categories(blocks) == {blocks[i].category : i \in 1..Len(blocks)}

\* round(num / den, 3) in thousandths: the nearest thousandth; when the
\* quotient lies exactly halfway between two thousandths the binary floating
\* point value decides, and either neighbour may come out
Round3(num, den) ==
    LET q == (1000 * num) \div den
        r == (1000 * num) % den
    IN  IF 2 * r < den THEN {q}
        ELSE IF 2 * r > den THEN {q + 1}
        ELSE {q, q + 1}

\* A mutant of completion_rate: the blocks that are not completed are the divisor.
completion_rate_of_rest(completed, total) ==
    IF total - completed > 0 THEN Round3(completed, total - completed) ELSE {0}

\* (completed_blocks / total_blocks) if total_blocks else 0.0, rounded
completion_rate(completed, total) ==
    IF total # 0 THEN Round3(completed, total) ELSE {0}

\* A mutant of burnout_num: the workload term is left out.
burnout_num_no_workload(mood, focus, low, n, work, days) ==
    3 * days * (35 * (10 * n - mood) + 25 * (10 * n - focus) + 200 * low)

\* The burnout score as an exact fraction num / den:
\*   (1 - avg_mood / 10) * 0.35 + (1 - avg_focus / 10) * 0.25
\*   + energy_penalty * 0.20 + min(work_hrs_avg / 10, 1.0) * 0.20
\* with avg_mood = mood / n, avg_focus = focus / n, energy_penalty = low / n,
\* work_hrs_avg = work / 60 / days.
burnout_num(mood, focus, low, n, work, days) ==
    3 * days * (35 * (10 * n - mood) + 25 * (10 * n - focus) + 200 * low)
        + n * Min(work, 600 * days)

burnout_den(n, days) == 3000 * days * n

\* round(min(1.0, ...), 3)
burnout_risk(mood, focus, low, n, work, days) ==
    IF n = 0 THEN {0}
    ELSE LET num == burnout_num(mood, focus, low, n, work, days)
             den == burnout_den(n, days)
         IN  IF num >= den THEN {1000} ELSE Round3(num, den)

\* days_left = (target_date - today).days if target_date else 999
days_left(goal) ==
    IF goal.target_date = <<>> THEN 999 ELSE goal.target_date[1] - today

\* A mutant of on_track: the boundary is at risk.
on_track_strict(pct, days, left) ==
    IF left > 0 THEN pct * 100 * (days + left) > 85 * 100 * days
    ELSE pct * 100 > 85 * 100

\* required = (days / (days + days_left)) * 100 if days_left > 0 else 100
\* pct >= required * 0.85, with required = req_num / req_den
on_track(pct, days, left) ==
    LET req_num == IF left > 0 THEN days * 100 ELSE 100
        req_den == IF left > 0 THEN days + left ELSE 1
    IN  pct * 100 * req_den >= 85 * req_num

ActiveGoals(user_id) ==
    SelectSeq(goals, LAMBDA g : g.user_id = user_id /\ g.status = "active")

Titles(rows) == [i \in 1..Len(rows) |-> rows[i].title]

Periods == {"weekly", "monthly", "daily"}

SummaryTexts == { <<"s", "o", "r", "r", "y">>, <<"{", "}">> }

\* get_progress_summary up to the insights prompt: the values of the fields
\* that are computed from the store
summary_fields(user_id, period) ==
    LET days      == Days(period)
        blocks    == WindowBlocks(user_id, days)
        total     == Len(blocks)
        completed == Len(SelectSeq(blocks, LAMBDA b : b.status = "completed"))
        active    == ActiveGoals(user_id)
        ok(g)     == on_track(g.progress_percent, days, days_left(g))
        checkins  == WindowCheckins(user_id, days)
        work      == category_minutes(blocks, "work")
                        + category_minutes(blocks, "study")
        mine      == SelectSeq(habits, LAMBDA h : h.user_id = user_id)
    IN  {[completion_rate |-> rate,
          goals_on_track |-> Titles(SelectSeq(active, ok)),
          goals_at_risk |-> Titles(SelectSeq(active, LAMBDA g : ~ok(g))),
          habit_streaks |->
              {<<mine[i].title, mine[i].streak_count>> : i \in 1..Len(mine)},
          time_allocation |->
              [cat \in Categories(blocks) |-> category_minutes(blocks, cat)],
          burnout_risk_score |-> risk] :
            rate \in completion_rate(completed, total),
            risk \in burnout_risk(
                        Sum(checkins, LAMBDA c : c.mood_score),
                        Sum(checkins, LAMBDA c : c.focus_score),
                        Len(SelectSeq(checkins, LAMBDA c : c.energy_level = "low")),
                        Len(checkins), work, days)}

\* A mutant of ProgressSummary: a reply that is JSON is read for a score.
ProgressSummaryFromReply(user_id, period, remote) ==
    IF period \notin {"weekly", "monthly"}
    THEN {[op |-> "summary", code |-> 400, user_id |-> user_id,
           period |-> period, calls |-> 0]}
    ELSE IF ~remote.ok
    THEN {[op |-> "summary", code |-> 500, user_id |-> user_id,
           period |-> period, calls |-> 1]}
    ELSE {[op |-> "summary", code |-> 200, user_id |-> user_id,
           period |-> period, calls |-> 1,
           completion_rate |-> f.completion_rate,
           goals_on_track |-> f.goals_on_track,
           goals_at_risk |-> f.goals_at_risk,
           habit_streaks |-> f.habit_streaks,
           time_allocation |-> f.time_allocation,
           burnout_risk_score |->
               IF json_loads(remote.text).kind = "error"
               THEN f.burnout_risk_score ELSE 777,
           ai_insights |-> remote.text] : f \in summary_fields(user_id, period)}

\* api_progress_summary: the answers it can give
ProgressSummary(user_id, period, remote) ==
    IF period \notin {"weekly", "monthly"}
    THEN {[op |-> "summary", code |-> 400, user_id |-> user_id,
           period |-> period, calls |-> 0]}
    ELSE IF ~remote.ok
    THEN {[op |-> "summary", code |-> 500, user_id |-> user_id,
           period |-> period, calls |-> 1]}
    ELSE {[op |-> "summary", code |-> 200, user_id |-> user_id,
           period |-> period, calls |-> 1,
           completion_rate |-> f.completion_rate,
           goals_on_track |-> f.goals_on_track,
           goals_at_risk |-> f.goals_at_risk,
           habit_streaks |-> f.habit_streaks,
           time_allocation |-> f.time_allocation,
           burnout_risk_score |-> f.burnout_risk_score,
           ai_insights |-> remote.text] : f \in summary_fields(user_id, period)}

\* get_progress_summary behind api_progress_summary
GetProgressSummary(user_id, period, remote) ==
    /\ resp' \in ProgressSummary(user_id, period, remote)
    /\ UNCHANGED <<store, now, inflight>>

(***************************************************************************)
(* services/goal_service behind routers/goals                              *)
(***************************************************************************)
MaxGoals == 2

GoalIds == {uuid(n) : n \in 1..MaxGoals}

GoalResponse(op, code, user_id, goal_id, calls) ==
    [op |-> op, code |-> code, user_id |-> user_id, goal_id |-> goal_id,
     calls |-> calls]

\* Goal(...): roadmap is Optional[List[dict]]
RoadmapValid(roadmap) == roadmap.kind \in {"array", "null"}

\* goal_id = str(uuid.uuid4()): an id no row of the table carries
FreshGoalId ==
    uuid(CHOOSE n \in 1..MaxGoals :
            /\ \A i \in 1..Len(goals) : goals[i].goal_id # uuid(n)
            /\ \A m \in 1..(n - 1) : \E i \in 1..Len(goals) : goals[i].goal_id = uuid(m))

\* create_goal: the row is committed before the Goal record is built
CreateGoal(user_id, title, target_date, remote) ==
    /\ Len(goals) < MaxGoals
    /\ LET goal_id == FreshGoalId
          roadmap == parse_roadmap(remote.text)
          row == [goal_id |-> goal_id, user_id |-> user_id, title |-> title,
                  target_date |-> target_date, progress_percent |-> 0,
                  status |-> "active", roadmap |-> roadmap]
      IN  IF ~remote.ok
          THEN /\ resp' = GoalResponse("create_goal", 500, user_id, ABSENT, 1)
               /\ UNCHANGED goals
          ELSE /\ goals' = Append(goals, row)
               /\ resp' = GoalResponse("create_goal",
                                       IF RoadmapValid(roadmap) THEN 200 ELSE 500,
                                       user_id, goal_id, 1)
    /\ UNCHANGED <<users, schedules, habits, habit_logs, daily_checkins,
                   chat_sessions, now, inflight>>

GoalRows(goal_id, user_id) ==
    {i \in 1..Len(goals) : goals[i].goal_id = goal_id /\ goals[i].user_id = user_id}

\* update_progress: UPDATE goals SET progress_percent = ? WHERE goal_id = ? AND
\* user_id = ?, then get_goal
UpdateProgress(goal_id, user_id, progress_percent) ==
    /\ goals' = [i \in 1..Len(goals) |->
                    IF i \in GoalRows(goal_id, user_id)
                    THEN [goals[i] EXCEPT !.progress_percent = progress_percent]
                    ELSE goals[i]]
    /\ resp' = GoalResponse("update_progress",
                            IF \E i \in GoalRows(goal_id, user_id) :
                                  RoadmapValid(goals[i].roadmap)
                            THEN 200 ELSE 404,
                            user_id, goal_id, 0)
    /\ UNCHANGED <<users, schedules, habits, habit_logs, daily_checkins,
                   chat_sessions, now, inflight>>

\* A mutant of DeleteGoal: the habits that name the goal go with it.
DeleteGoalCascade(goal_id, user_id) ==
    /\ goals' = SelectSeq(goals, LAMBDA g :
                    ~(g.goal_id = goal_id /\ g.user_id = user_id))
    /\ habits' = SelectSeq(habits, LAMBDA h : h.goal_id # goal_id)
    /\ resp' = GoalResponse("delete_goal", 200, user_id, goal_id, 0)
    /\ UNCHANGED <<users, schedules, habit_logs, daily_checkins,
                   chat_sessions, now, inflight>>

\* delete_goal behind api_delete_goal: DELETE FROM goals WHERE goal_id = ? AND
\* user_id = ?, then {"message": "Goal deleted."}
DeleteGoal(goal_id, user_id) ==
    /\ goals' = SelectSeq(goals, LAMBDA g :
                    ~(g.goal_id = goal_id /\ g.user_id = user_id))
    /\ resp' = GoalResponse("delete_goal", 200, user_id, goal_id, 0)
    /\ UNCHANGED <<users, schedules, habits, habit_logs, daily_checkins,
                   chat_sessions, now, inflight>>

(***************************************************************************)
(* SpecGoal: goals, their progress, and the summary's classification.      *)
(***************************************************************************)
GoalTitles == {"A", "B"}

TargetDates == {<<>>, <<today + 10>>, <<today>>}

ProgressValues == {34, 35, 85}

RoadmapText == <<"[", "I_week1", "I_week2", "]">>

NextGoal ==
    \/ \E t \in GoalTitles, d \in TargetDates, r \in Remote({RoadmapText}) :
          CreateGoal("u1", t, d, r)
    \/ \E g \in GoalIds, u \in UserIds, p \in ProgressValues :
          UpdateProgress(g, u, p)
    \/ \E u \in UserIds, p \in Periods :
          GetProgressSummary(u, p, [ok |-> TRUE, text |-> RoadmapText])

InitGoal == Init /\ now = 720

SpecGoal == InitGoal /\ [][NextGoal]_vars

(***************************************************************************)
(* SpecProgress: check-ins, schedules and the summary over them.           *)
(***************************************************************************)
ProgressDates == {today, today - 10}

CheckInBodies ==
    {[user_id |-> "u1", date |-> d, energy_level |-> c[1], mood_score |-> c[2],
      focus_score |-> c[3]] :
        d \in ProgressDates,
        c \in {<<"low", 5, 5>>, <<"high", 5, 5>>, <<"high", 10, 10>>,
               <<"high", 0, 5>>, <<"sleepy", 5, 5>>}}

ProgressTexts ==
    { <<"{", "K_blocks", "[", "B_long", "B_long", "]", "}">>,
      <<"{", "K_blocks", "[", "B_done", "B_early", "B_late", "]", "}">>,
      <<"{", "K_blocks", "[", "]", "}">> }

NextProgress ==
    \/ RegisterUser("u1")
    \/ \E c \in CheckInBodies : LogCheckin(c)
    \/ \E d \in ProgressDates, t \in ProgressTexts :
          /\ Len(schedules) < MaxDayRows
          /\ GenerateSchedule("u1", d, [ok |-> TRUE, text |-> t])
    \/ \E p \in Periods, r \in Remote(SummaryTexts) :
          GetProgressSummary("u1", p, r)

InitProgress == Init /\ now = 720

SpecProgress == InitProgress /\ [][NextProgress]_vars

(***************************************************************************)
(* The summary over rows dated inside and outside the trailing window:     *)
(* today, tomorrow, ten days ago (before the weekly window start) and      *)
(* forty days ago (before the monthly one).                                *)
(***************************************************************************)
WindowDates == {today, today + 1, today - 10, today - 40}

WindowCheckInBodies ==
    {[user_id |-> "u1", date |-> d, energy_level |-> "low", mood_score |-> 5,
      focus_score |-> 5] : d \in WindowDates}

WindowTexts ==
    { <<"{", "K_blocks", "[", "B_long", "B_long", "]", "}">>,
      <<"{", "K_blocks", "[", "B_done", "B_early", "B_late", "]", "}">> }

NextWindow ==
    \/ RegisterUser("u1")
    \/ \E c \in WindowCheckInBodies : LogCheckin(c)
    \/ \E d \in WindowDates, t \in WindowTexts :
          /\ Len(schedules) < MaxDayRows
          /\ GenerateSchedule("u1", d, [ok |-> TRUE, text |-> t])
    \/ \E p \in {"weekly", "monthly"} :
          \E r \in Remote({<<"{", "}">>}) : GetProgressSummary("u1", p, r)

InitWindow == Init /\ now = 720

SpecWindow == InitWindow /\ [][NextWindow]_vars

(***************************************************************************)
(* A goal with the rows that name it: a habit created for it and a         *)
(* schedule whose block carries its id.                                    *)
(***************************************************************************)
GoalBlockText == <<"{", "K_blocks", "[", "B_goal", "B_early", "]", "}">>

StoredGoalIds == {goals[i].goal_id : i \in 1..Len(goals)}

NextCascade ==
    \/ RegisterUser("u1")
    \/ \E u \in UserIds, r \in Remote({RoadmapText}) : CreateGoal(u, "A", <<>>, r)
    \/ \E g \in StoredGoalIds \cup {ABSENT} : create_habit("u1", "read", g)
    \/ \E u \in UserIds, h \in HabitIds : DeleteHabit(u, h)
    \/ /\ Len(schedules) < MaxDayRows
       /\ GenerateSchedule("u1", today, [ok |-> TRUE, text |-> GoalBlockText])
    \/ \E g \in GoalIds, u \in UserIds : DeleteGoal(g, u)

InitCascade == Init /\ now = 720

SpecCascade == InitCascade /\ [][NextCascade]_vars

(***************************************************************************)
(* SpecOwner: habits and goals of one user, and requests that carry        *)
(* either user's id.                                                       *)
(***************************************************************************)
NextOwner ==
    \/ habits = <<>> /\ CreateHabit("u2", "read")
    \/ \E u \in UserIds, h \in HabitIds : HabitCheckin(u, h, u = "u1", today)
    \/ \E u \in UserIds, h \in HabitIds : DeleteHabit(u, h)
    \/ goals = <<>> /\ CreateGoal("u2", "A", <<>>, [ok |-> TRUE, text |-> RoadmapText])
    \/ \E u \in UserIds : UpdateProgress(uuid(1), u, 50)
    \/ \E u \in UserIds : DeleteGoal(uuid(1), u)

InitOwner == Init /\ now = 720

SpecOwner == InitOwner /\ [][NextOwner]_vars

(***************************************************************************)
(* routers/habits.api_suggest_habits, routers/goals.api_simulate_scenario   *)
(* and routers/chat.api_chat                                               *)
(***************************************************************************)
ReplyResponse(op, code, user_id, calls, result) ==
    [op |-> op, code |-> code, user_id |-> user_id, calls |-> calls,
     result |-> result]

\* api_suggest_habits: {"suggestions": parsed}
SuggestHabits(user_id, remote) ==
    /\ resp' = IF ~remote.ok
               THEN ReplyResponse("suggest", 500, user_id, 1, EmptyList)
               ELSE ReplyResponse("suggest", 200, user_id, 1,
                                  parse_suggestions(remote.text))
    /\ UNCHANGED <<store, now, inflight>>

\* api_simulate_scenario: list_goals builds a Goal from every row first
Simulate(user_id, remote) ==
    /\ resp' = IF \E i \in 1..Len(goals) :
                     goals[i].user_id = user_id /\ ~RoadmapValid(goals[i].roadmap)
               THEN ReplyResponse("simulate", 500, user_id, 0, EmptyList)
               ELSE IF ~remote.ok
               THEN ReplyResponse("simulate", 500, user_id, 1, EmptyList)
               ELSE ReplyResponse("simulate", 200, user_id, 1,
                                  parse_simulation(remote.text))
    /\ UNCHANGED <<store, now, inflight>>

\* result.get("reply", "")
reply(result) ==
    IF result.fallback THEN result.text
    ELSE IF "K_reply" \in result.keys THEN <<"K_reply">>
    ELSE <<>>

\* result.get("suggested_actions", [])
suggested_actions(result) ==
    IF ~result.fallback /\ "K_actions" \in result.keys
    THEN <<"action1", "action2">>
    ELSE <<>>

ChatMessage(role, content, timestamp) ==
    [role |-> role, content |-> content, timestamp |-> timestamp]

\* INSERT INTO chat_sessions ... ON CONFLICT(session_id) DO UPDATE SET history
UpsertSession(table, user_id, new_history) ==
    IF \E i \in 1..Len(table) : table[i].user_id = user_id
    THEN [i \in 1..Len(table) |->
             IF table[i].user_id = user_id
             THEN [table[i] EXCEPT !.history = new_history]
             ELSE table[i]]
    ELSE Append(table, [session_id |-> user_id \o "_main", user_id |-> user_id,
                        history |-> new_history])

\* A mutant of api_chat: the user's message is stored before the coach is asked.
api_chat_write_first(user_id, message, conversation_history, remote) ==
    LET result == run_coach(remote.text)
        asked == conversation_history \o <<ChatMessage("user", message, <<now>>)>>
        new_history == asked \o <<ChatMessage("assistant", reply(result), <<now>>)>>
    IN  /\ IF \E i \in 1..Len(conversation_history) :
                 conversation_history[i].timestamp # <<>>
           THEN /\ resp' = [op |-> "chat", code |-> 500, user_id |-> user_id,
                            calls |-> 0, reply |-> <<>>, suggested_actions |-> <<>>]
                /\ UNCHANGED chat_sessions
           ELSE IF ~remote.ok \/ result.kind # "object"
           THEN /\ resp' = [op |-> "chat", code |-> 500, user_id |-> user_id,
                            calls |-> 1, reply |-> <<>>, suggested_actions |-> <<>>]
                /\ chat_sessions' = UpsertSession(chat_sessions, user_id, asked)
           ELSE /\ chat_sessions' = UpsertSession(chat_sessions, user_id, new_history)
                /\ resp' = [op |-> "chat", code |-> 200, user_id |-> user_id,
                            calls |-> 1, reply |-> reply(result),
                            suggested_actions |-> suggested_actions(result)]
        /\ UNCHANGED <<users, goals, schedules, habits, habit_logs,
                       daily_checkins, now>>

\* api_chat; a datetime in the dumped conversation_history stops json.dumps
api_chat(user_id, message, conversation_history, remote) ==
    LET result == run_coach(remote.text)
        new_history ==
            conversation_history
              \o <<ChatMessage("user", message, <<now>>),
                   ChatMessage("assistant", reply(result), <<now>>)>>
    IN  /\ IF \E i \in 1..Len(conversation_history) :
                 conversation_history[i].timestamp # <<>>
           THEN /\ resp' = [op |-> "chat", code |-> 500, user_id |-> user_id,
                            calls |-> 0, reply |-> <<>>, suggested_actions |-> <<>>]
                /\ UNCHANGED chat_sessions
           ELSE IF ~remote.ok \/ result.kind # "object"
           THEN /\ resp' = [op |-> "chat", code |-> 500, user_id |-> user_id,
                            calls |-> 1, reply |-> <<>>, suggested_actions |-> <<>>]
                /\ UNCHANGED chat_sessions
           ELSE /\ chat_sessions' = UpsertSession(chat_sessions, user_id, new_history)
                /\ resp' = [op |-> "chat", code |-> 200, user_id |-> user_id,
                            calls |-> 1, reply |-> reply(result),
                            suggested_actions |-> suggested_actions(result)]
        /\ UNCHANGED <<users, goals, schedules, habits, habit_logs,
                       daily_checkins, now>>

Chat(user_id, message, conversation_history, remote) ==
    api_chat(user_id, message, conversation_history, remote) /\ UNCHANGED inflight

\* api_chat_history: the stored history of the session, [] when there is none
ChatHistory(user_id) ==
    /\ resp' = [op |-> "history", code |-> 200, user_id |-> user_id,
                history |-> IF \E i \in 1..Len(chat_sessions) :
                                  chat_sessions[i].user_id = user_id
                             THEN chat_sessions[
                                      CHOOSE i \in 1..Len(chat_sessions) :
                                          chat_sessions[i].user_id = user_id].history
                             ELSE <<>>]
    /\ UNCHANGED <<store, now, inflight>>

(***************************************************************************)
(* SpecFallback: every operation that reads the model's reply, on replies  *)
(* that are JSON, fenced JSON and no JSON at all.                          *)
(***************************************************************************)
Sorry == <<"s", "o", "r", "r", "y">>

NoJsonTexts == { Sorry, FenceOpen \o <<"\n">> \o Sorry \o <<"\n">> \o FenceClose }

FallbackTexts(site) ==
    NoJsonTexts \cup
      { CASE site \in {"schedule", "reschedule"} ->
                 <<"{", "K_blocks", "[", "B_early", "B_late", "]", "}">>
          [] site \in {"roadmap", "habits"} -> <<"[", "I_week1", "]">>
          [] site = "simulate" -> <<"{", "K_recommend", "}">>
          [] site = "coach" -> <<"{", "K_reply", "K_actions", "}">> }

Histories == { <<>>, <<ChatMessage("user", Sorry, <<today>>)>> }

NextFallback ==
    \/ RegisterUser("u1")
    \/ Tick
    \/ \E r \in Remote(FallbackTexts("schedule")) :
          Len(schedules) < MaxDayRows /\ GenerateSchedule("u1", today, r)
    \/ UpdateTaskStatus("u1", "b2", "completed", ABSENT)
    \/ \E r \in Remote(FallbackTexts("reschedule")) : Reschedule("u1", r)
    \/ \E r \in Remote(NoJsonTexts) : CreateGoal("u1", "A", <<>>, r)
    \/ \E r \in Remote(FallbackTexts("habits")) : SuggestHabits("u1", r)
    \/ \E r \in Remote(FallbackTexts("simulate")) : Simulate("u1", r)
    \/ \E h \in Histories, r \in Remote(FallbackTexts("coach")) :
          Chat("u1", Sorry, h, r)

SpecFallback == Init /\ [][NextFallback]_vars

(***************************************************************************)
(* SpecRequests: every operation, for a registered and for an unknown      *)
(* user, with a reply of the right shape, of the wrong shape, or none.     *)
(***************************************************************************)
Shaped(site) ==
    CASE site = "schedule" -> <<"{", "K_blocks", "[", "B_early", "B_late", "]", "}">>
      [] site = "reschedule" -> <<"{", "K_blocks", "[", "B_late", "]", "}">>
      [] site \in {"roadmap", "habits"} -> <<"[", "I_week1", "]">>
      [] site = "simulate" -> <<"{", "K_recommend", "}">>
      [] site = "coach" -> <<"{", "K_reply", "K_actions", "}">>

Misshaped(site) ==
    CASE site \in {"schedule", "reschedule"} ->
             <<"{", "K_blocks", "[", "B_notitle", "]", "}">>
      [] site = "roadmap" -> <<"{", "}">>
      [] site = "coach" -> <<"[", "]">>
      [] OTHER -> <<"n", "u", "l", "l">>

RequestTexts(site) == {Shaped(site), Misshaped(site)}

\* The operations whose handler has an "except Exception" branch that raises
\* HTTPException(500, detail=str(e)); elsewhere an exception that is not a
\* ValueError leaves the handler and the server answers a bare 500.
HandlesException == {"generate", "create_goal", "summary"}

\* u1 registers and plans its day; u2 never registers
NextRequests ==
    \/ RegisterUser("u1")
    \/ \E u \in UserIds, r \in Remote(RequestTexts("schedule")) :
          Len(schedules) < MaxDayRows /\ GenerateSchedule(u, today, r)
    \/ \E u \in UserIds, d \in ScheduleDates : GetSchedule(u, d)
    \/ \E u \in UserIds, b \in {"b1", "b9"} :
          UpdateTaskStatus(u, b, "completed", ABSENT)
    \/ \E u \in UserIds, r \in Remote(RequestTexts("reschedule")) : Reschedule(u, r)
    \/ \E r \in Remote({Shaped("roadmap")}) : CreateGoal("u2", "A", <<>>, r)
    \/ \E u \in UserIds, g \in GoalIds, p \in {0, 150} : UpdateProgress(g, u, p)
    \/ \E u \in UserIds, g \in GoalIds : DeleteGoal(g, u)
    \/ \E r \in Remote(RequestTexts("habits")) : SuggestHabits("u2", r)
    \/ \E r \in Remote(RequestTexts("simulate")) : Simulate("u2", r)
    \/ \E r \in Remote(RequestTexts("coach")) : Chat("u2", Sorry, <<>>, r)
    \/ \E u \in UserIds, r \in Remote(SummaryTexts) :
          GetProgressSummary(u, "weekly", r)

InitRequests == Init /\ now = 720

SpecRequests == InitRequests /\ [][NextRequests]_vars

(***************************************************************************)
(* SpecRace: requests in flight.  A request that calls the remote model is *)
(* suspended at the call; the other requests run until the reply comes,    *)
(* and then the request goes on to its write.                              *)
(***************************************************************************)
MaxInflight == 2

RequestIds == 1..MaxInflight

Greeting == <<"h", "i">>

\* generate_schedule up to "await run_planner(prompt)"
BeginGenerate(rid, user_id, date) ==
    /\ \A q \in inflight : q.rid # rid
    /\ IF user_id \notin users
       THEN /\ resp' = Response("generate", 404, user_id, 0, ABSENT, <<>>)
            /\ UNCHANGED inflight
       ELSE /\ resp' = [op |-> "await", rid |-> rid]
            /\ inflight' = inflight \cup
                  {[rid |-> rid, op |-> "generate", user_id |-> user_id,
                    date |-> date, message |-> <<>>]}
    /\ UNCHANGED <<store, now>>

\* generate_schedule from the reply on
EndGenerate(q, remote) ==
    /\ q \in inflight /\ q.op = "generate"
    /\ generate_schedule(q.user_id, q.date, remote)
    /\ inflight' = inflight \ {q}

\* api_chat up to "await run_coach(prompt)"
BeginChat(rid, user_id, message) ==
    /\ \A q \in inflight : q.rid # rid
    /\ resp' = [op |-> "await", rid |-> rid]
    /\ inflight' = inflight \cup
          {[rid |-> rid, op |-> "chat", user_id |-> user_id, date |-> today,
            message |-> message]}
    /\ UNCHANGED <<store, now>>

\* api_chat from the reply on
EndChat(q, remote) ==
    /\ q \in inflight /\ q.op = "chat"
    /\ api_chat(q.user_id, q.message, <<>>, remote)
    /\ inflight' = inflight \ {q}

NextRace ==
    \/ RegisterUser("u1")
    \/ \E rid \in RequestIds, u \in UserIds : BeginGenerate(rid, u, today)
    \/ \E q \in inflight, t \in {Shaped("schedule"), Shaped("reschedule")} :
          EndGenerate(q, [ok |-> TRUE, text |-> t])
    \/ \E rid \in RequestIds, m \in {Greeting, Sorry} : BeginChat(rid, "u1", m)
    \/ \E q \in inflight : EndChat(q, [ok |-> TRUE, text |-> Shaped("coach")])
    \/ \E u \in UserIds : GetSchedule(u, today)
    \/ \E u \in UserIds : ChatHistory(u)

InitRace == Init /\ now = 720

SpecRace == InitRace /\ [][NextRace]_vars

(***************************************************************************)
(* update_task_status served concurrently: each request has its own        *)
(* connection, and between its SELECT and its UPDATE other requests run.   *)
(* A request that has been answered stays in inflight with op "updated"    *)
(* and its status code.                                                    *)
(***************************************************************************)
\* update_task_status up to the end of the for loop: the row is read and the
\* block looked up; both ValueErrors are raised before any write
BeginUpdate(rid, user_id, block_id, status) ==
    /\ \A q \in inflight : q.rid # rid
    /\ IF ScheduleRows(user_id, today) = {}
       THEN /\ resp' = Response("update_task", 404, user_id, 0, ABSENT, <<>>)
            /\ UNCHANGED inflight
       ELSE \E i \in ScheduleRows(user_id, today) :
               IF FirstWithId(schedules[i].time_blocks, block_id, 1) = 0
               THEN /\ resp' = Response("update_task", 404, user_id, 0,
                                        ABSENT, <<>>)
                    /\ UNCHANGED inflight
               ELSE /\ resp' = [op |-> "await", rid |-> rid]
                    /\ inflight' = inflight \cup
                          {[rid |-> rid, op |-> "update", user_id |-> user_id,
                            schedule_id |-> schedules[i].schedule_id,
                            time_blocks |-> schedules[i].time_blocks,
                            block_id |-> block_id, status |-> status,
                            code |-> 0]}
    /\ UNCHANGED <<store, now>>

\* A mutant of EndUpdate: the block is changed in the list as it is stored
\* at the time of the write.
EndUpdateStored(q) ==
    /\ q \in inflight /\ q.op = "update"
    /\ schedules' =
          [i \in 1..Len(schedules) |->
              IF schedules[i].schedule_id = q.schedule_id
              THEN [schedules[i] EXCEPT !.time_blocks =
                       SetStatus(@, FirstWithId(@, q.block_id, 1), q.status, ABSENT)]
              ELSE schedules[i]]
    /\ resp' = Response("update_task", 200, q.user_id, 0, q.schedule_id, <<>>)
    /\ inflight' = (inflight \ {q}) \cup {[q EXCEPT !.op = "updated", !.code = 200]}
    /\ UNCHANGED <<users, goals, habits, habit_logs, daily_checkins,
                   chat_sessions, now>>

\* UPDATE schedules SET time_blocks = json.dumps(blocks) WHERE schedule_id = ?,
\* blocks being the list the request read, with its one block changed
EndUpdate(q) ==
    /\ q \in inflight /\ q.op = "update"
    /\ schedules' =
          [i \in 1..Len(schedules) |->
              IF schedules[i].schedule_id = q.schedule_id
              THEN [schedules[i] EXCEPT !.time_blocks =
                       SetStatus(q.time_blocks,
                                 FirstWithId(q.time_blocks, q.block_id, 1),
                                 q.status, ABSENT)]
              ELSE schedules[i]]
    /\ resp' = Response("update_task", 200, q.user_id, 0, q.schedule_id, <<>>)
    /\ inflight' = (inflight \ {q}) \cup {[q EXCEPT !.op = "updated", !.code = 200]}
    /\ UNCHANGED <<users, goals, habits, habit_logs, daily_checkins,
                   chat_sessions, now>>

\* api_habit_checkin has been entered by a request: nothing is read or
\* written before its INSERT
BeginHabitCheckin(rid, user_id, habit_id, completed) ==
    /\ \A q \in inflight : q.rid # rid
    /\ resp' = [op |-> "await", rid |-> rid]
    /\ inflight' = inflight \cup
          {[rid |-> rid, op |-> "habit_checkin", user_id |-> user_id,
            habit_id |-> habit_id, completed |-> completed, during |-> {}]}
    /\ UNCHANGED <<store, now>>

\* the INSERT, the UPDATE and the commit of one request: a write transaction,
\* which SQLite lets one connection at a time hold.  The answered request
\* stays in inflight with op "checked" and the requests in flight beside it.
EndHabitCheckin(q) ==
    /\ q \in inflight /\ q.op = "habit_checkin"
    /\ habit_checkin(q.user_id, q.habit_id, q.completed, today)
    /\ inflight' = (inflight \ {q}) \cup
          {[q EXCEPT !.op = "checked",
                     !.during = {p.rid : p \in {x \in inflight \ {q} :
                                                  x.op = "habit_checkin"}}]}

NextStreak ==
    \/ habits = <<>> /\ CreateHabit("u1", "read")
    \/ \E rid \in RequestIds, u \in UserIds, h \in HabitIds, c \in BOOLEAN :
          BeginHabitCheckin(rid, u, h, c)
    \/ \E q \in inflight : EndHabitCheckin(q)

InitStreak == Init /\ now = 720

SpecStreak == InitStreak /\ [][NextStreak]_vars

LostTexts == { <<"{", "K_blocks", "[", "B_early", "B_late", "]", "}">>,
               <<"{", "K_blocks", "[", "B_late", "]", "}">> }

NextLost ==
    \/ RegisterUser("u1")
    \/ \E t \in LostTexts :
          /\ Len(schedules) < MaxDayRows
          /\ GenerateSchedule("u1", today, [ok |-> TRUE, text |-> t])
    \/ \E rid \in RequestIds, u \in UserIds, b \in {"b1", "b2"} :
          BeginUpdate(rid, u, b, "completed")
    \/ \E q \in inflight : EndUpdate(q)
    \/ \E u \in UserIds : GetSchedule(u, today)

InitLost == Init /\ now = 720

SpecLost == InitLost /\ [][NextLost]_vars

(***************************************************************************)
(* Extraction alone: a text, then its extraction at one site, bare and     *)
(* wrapped.                                                                *)
(***************************************************************************)
InitExtract ==
    /\ InitStore
    /\ resp \in {[op |-> "text", text |-> t] : t \in JsonObjects \cup JsonOthers \cup NonJson}

Extract(site, open, close) ==
    /\ resp.op = "text"
    /\ resp' = [op |-> "extract", site |-> site, text |-> resp.text,
                open |-> open, close |-> close,
                bare |-> ExtractAt(site, resp.text),
                wrapped |-> ExtractAt(site, open \o resp.text \o close),
                loads |-> json_loads(resp.text)]
    /\ UNCHANGED <<store, now, inflight>>

NextExtract == \E site \in Sites, open \in Openers, close \in Closers :
                   Extract(site, open, close)

SpecExtract == InitExtract /\ [][NextExtract]_vars

(***************************************************************************)
(* C9: at every extraction site, a JSON object wrapped in a json fence is  *)
(* extracted to the value json.loads gives for the unwrapped text.         *)
(***************************************************************************)
C9_FencedObjectRoundTrip ==
    (/\ resp.op = "extract"
     /\ resp.loads.kind = "object"
     /\ JsonFenced(resp.open, resp.close))
        => resp.wrapped = resp.loads

C9_Witness ==
    /\ resp.op = "extract"
    /\ resp.site = "coach"
    /\ resp.loads.kind = "object"
    /\ "K_reply" \in resp.loads.keys
    /\ JsonFenced(resp.open, resp.close)
    /\ resp.wrapped = resp.loads

(***************************************************************************)
(* C1: after any sequence of generate_schedule calls there is at most one  *)
(* schedule row per (user, date), and get_schedule returns the schedule of *)
(* the latest generation for that pair.                                    *)
(***************************************************************************)
LatestRow(user_id, date) ==
    CHOOSE i \in ScheduleRows(user_id, date) :
        \A j \in ScheduleRows(user_id, date) : j <= i

C1_OneSchedulePerUserDate ==
    /\ \A u \in UserIds, d \in ScheduleDates :
          Cardinality(ScheduleRows(u, d)) <= 1
    /\ (resp.op = "get" /\ resp.code = 200) =>
          \E d \in ScheduleDates :
             /\ ScheduleRows(resp.user_id, d) # {}
             /\ resp.schedule_id = schedules[LatestRow(resp.user_id, d)].schedule_id

(***************************************************************************)
(* C3: when no block of today's schedule is missed, the reschedule request *)
(* answers with the schedule as get_schedule reads it from the store,      *)
(* makes no call to the remote model and writes nothing.                   *)
(***************************************************************************)
NoMissedBlock(user_id) ==
    \A i \in ScheduleRows(user_id, today) :
        \A k \in 1..Len(schedules[i].time_blocks) :
            LET b == schedules[i].time_blocks[k]
            IN  ~(b.status \in {"pending", "skipped"} /\ b.end_time < now)

C3_NoMissedNoChange ==
    [][(resp'.op = "reschedule" /\ NoMissedBlock(resp'.user_id)) =>
          /\ store' = store
          /\ resp'.calls = 0
          /\ resp'.code = 200 =>
                \E i \in ScheduleRows(resp'.user_id, today) :
                   /\ resp'.schedule_id = schedules[i].schedule_id
                   /\ resp'.time_blocks = TimeBlocks(schedules[i].time_blocks)]_vars

C3_Witness ==
    /\ resp.op = "reschedule"
    /\ resp.code = 200
    /\ resp.calls = 0
    /\ NoMissedBlock(resp.user_id)
    /\ \E k \in 1..Len(resp.time_blocks) : resp.time_blocks[k].status = "completed"
    /\ \E k \in 1..Len(resp.time_blocks) : resp.time_blocks[k].status = "pending"

(***************************************************************************)
(* C4: when a block is missed, the block list stored by the reschedule     *)
(* begins with the blocks that were completed, every field of theirs as it *)
(* was in the store before the call.                                       *)
(***************************************************************************)
IsPrefix(p, q) == Len(p) <= Len(q) /\ SubSeq(q, 1, Len(p)) = p

C4_CompletedCarriedUntouched ==
    [][(resp'.op = "reschedule" /\ resp'.code = 200 /\ resp'.calls = 1) =>
          \E i \in ScheduleRows(resp'.user_id, today) :
             /\ resp'.schedule_id = schedules[i].schedule_id
             /\ IsPrefix(SelectSeq(schedules[i].time_blocks,
                                   LAMBDA b : b.status = "completed"),
                         schedules'[i].time_blocks)]_vars

(***************************************************************************)
(* C2: the streak of a habit is the number of completed check-ins recorded *)
(* for it since its last check-in that was not completed: a check-in with  *)
(* completed=false sets it to 0, one with completed=true adds 1.           *)
(***************************************************************************)
LogsOf(habit_id) == SelectSeq(habit_logs, LAMBDA l : l.habit_id = habit_id)

RECURSIVE TrailingCompleted(_)
TrailingCompleted(logs) ==
    IF logs = <<>> \/ ~logs[Len(logs)].completed THEN 0
    ELSE 1 + TrailingCompleted(SubSeq(logs, 1, Len(logs) - 1))

C2_StreakCountsCompletedSinceMiss ==
    \A i \in 1..Len(habits) :
        habits[i].streak_count = TrailingCompleted(LogsOf(habits[i].habit_id))

C2_Witness ==
    \E i \in 1..Len(habits) :
        LET logs == LogsOf(habits[i].habit_id)
        IN  /\ Len(logs) = 3
            /\ logs[1].completed /\ ~logs[2].completed /\ logs[3].completed
            /\ habits[i].streak_count = 1
            /\ resp.op = "checkin" /\ resp.completed

(***************************************************************************)
(* The inputs of the burnout score, read from the store for the summary    *)
(* the last request returned.                                              *)
(***************************************************************************)
IsSummary == resp.op = "summary" /\ resp.code = 200

SummaryCheckins == WindowCheckins(resp.user_id, Days(resp.period))

SummaryBlocks == WindowBlocks(resp.user_id, Days(resp.period))

SummaryWorkMinutes ==
    Sum(SelectSeq(SummaryBlocks, LAMBDA b : b.category \in {"work", "study"}),
        LAMBDA b : IF b.end_time > b.start_time THEN b.end_time - b.start_time ELSE 0)

\* avg_mood = 5, avg_focus = 5, energy_penalty = 0.5, work_hrs_avg = 5
C5_FixedInputs ==
    LET n == Len(SummaryCheckins)
    IN  /\ n > 0
        /\ Sum(SummaryCheckins, LAMBDA c : c.mood_score) = 5 * n
        /\ Sum(SummaryCheckins, LAMBDA c : c.focus_score) = 5 * n
        /\ 2 * Len(SelectSeq(SummaryCheckins, LAMBDA c : c.energy_level = "low")) = n
        /\ SummaryWorkMinutes = 5 * 60 * Days(resp.period)

(***************************************************************************)
(* C5, as stated: for avg_mood=5, avg_focus=5, energy_penalty=0.5 and      *)
(* work_hrs_avg=5 the burnout risk score of the summary is 0.4.            *)
(***************************************************************************)
C5_ScoreIs400 == (IsSummary /\ C5_FixedInputs) => resp.burnout_risk_score = 400

(***************************************************************************)
(* C5, amended: for avg_mood=5, avg_focus=5, energy_penalty=0.5 and        *)
(* work_hrs_avg=5 the burnout risk score of the summary is 0.5.            *)
(***************************************************************************)
C5_ScoreIs500 == (IsSummary /\ C5_FixedInputs) => resp.burnout_risk_score = 500

C5_Witness == IsSummary /\ C5_FixedInputs /\ resp.burnout_risk_score = 500

(***************************************************************************)
(* C6: the burnout risk score of every summary lies in [0,1], and is 0     *)
(* when the window holds no check-in.                                      *)
(***************************************************************************)
C6_BurnoutInUnitInterval ==
    IsSummary =>
        /\ resp.burnout_risk_score >= 0
        /\ resp.burnout_risk_score <= 1000
        /\ SummaryCheckins = <<>> => resp.burnout_risk_score = 0

C6_Witness ==
    /\ IsSummary
    /\ Len(SummaryCheckins) = 2
    /\ SummaryWorkMinutes > 0
    /\ resp.burnout_risk_score > 500
    /\ \E i \in 1..Len(SummaryBlocks) :
          SummaryBlocks[i].end_time < SummaryBlocks[i].start_time

(***************************************************************************)
(* C7, as stated: the completion rate of the summary is completed blocks   *)
(* over all blocks of the window, 0 when there is no block, within [0,1].  *)
(***************************************************************************)
SummaryCompleted ==
    Len(SelectSeq(SummaryBlocks, LAMBDA b : b.status = "completed"))

C7_RateIsExactRatio ==
    IsSummary =>
        /\ resp.completion_rate * Len(SummaryBlocks) = 1000 * SummaryCompleted
        /\ SummaryBlocks = <<>> => resp.completion_rate = 0
        /\ resp.completion_rate >= 0 /\ resp.completion_rate <= 1000

(***************************************************************************)
(* C7, amended: the completion rate of the summary is completed blocks     *)
(* over all blocks of the window rounded to 3 decimals (a nearest          *)
(* thousandth), 0 when there is no block, within [0,1].                    *)
(***************************************************************************)
C7_RateIsRoundedRatio ==
    IsSummary =>
        LET err == resp.completion_rate * Len(SummaryBlocks)
                     - 1000 * SummaryCompleted
        IN  /\ 2 * err <= Len(SummaryBlocks) /\ -2 * err <= Len(SummaryBlocks)
            /\ SummaryBlocks = <<>> => resp.completion_rate = 0
            /\ resp.completion_rate >= 0 /\ resp.completion_rate <= 1000

C7_Witness ==
    /\ IsSummary
    /\ Len(SummaryBlocks) = 3 /\ SummaryCompleted = 1
    /\ resp.completion_rate = 333

(***************************************************************************)
(* C8: the summary puts every active goal of the user in exactly one of    *)
(* goals_on_track and goals_at_risk: on track if and only if               *)
(* progress_percent >= 0.85 * required, the boundary included.             *)
(***************************************************************************)
\* progress_percent >= 0.85 * required, as  20 * pct * (days + left) >= 17 * 100 * days
C8_OnTrack(g) ==
    LET days == Days(resp.period)
        left == IF g.target_date = <<>> THEN 999 ELSE g.target_date[1] - today
    IN  IF left > 0 THEN 20 * g.progress_percent * (days + left) >= 1700 * days
        ELSE 20 * g.progress_percent >= 1700

C8_EachGoalInOneList ==
    IsSummary =>
        LET mine == SelectSeq(goals, LAMBDA g :
                        g.user_id = resp.user_id /\ g.status = "active")
        IN  /\ resp.goals_on_track = Titles(SelectSeq(mine, C8_OnTrack))
            /\ resp.goals_at_risk = Titles(SelectSeq(mine, LAMBDA g : ~C8_OnTrack(g)))
            /\ Len(resp.goals_on_track) + Len(resp.goals_at_risk) = Len(mine)

C8_Witness ==
    /\ IsSummary
    /\ resp.period = "weekly"
    /\ \E i \in 1..Len(goals) :
          /\ goals[i].user_id = resp.user_id
          /\ goals[i].target_date = <<today + 10>>
          /\ goals[i].progress_percent = 35
          /\ resp.goals_on_track = <<goals[i].title>>
    /\ Len(resp.goals_at_risk) = 1

(***************************************************************************)
(* C10: when the model's text is not JSON (bare or inside a fence), no     *)
(* operation raises because of it and each returns its default: schedule   *)
(* generation an empty block list with 0.0 work hours, roadmap and habit   *)
(* suggestions an empty list, the coach {reply: raw text,                  *)
(* suggested_actions: []}, simulation {scenario, recommendation: raw       *)
(* text}, and reschedule the remaining pending blocks.                     *)
(***************************************************************************)
C10_NotJson(site, text) ==
    /\ json_loads(text).kind = "error"
    /\ json_loads(IF site = "coach" THEN CleanCoach(text) ELSE Clean(text)).kind
           = "error"

\* per site, the replies of the remote model that are not JSON
C10_Replies ==
    [site \in Sites |->
        {r \in Remote(FallbackTexts(site)) : r.ok /\ C10_NotJson(site, r.text)}]

\* the completed blocks, then the pending blocks that end at or after now
C10_Kept(blocks) ==
    LET kept == SelectSeq(blocks, LAMBDA b : b.status = "completed")
                  \o SelectSeq(blocks, LAMBDA b :
                         b.status = "pending" /\ b.end_time >= now)
    IN  [k \in 1..Len(kept) |-> [kept[k] EXCEPT !.completion_note = ABSENT]]

C10_Generate ==
    \A r \in C10_Replies["schedule"] :
        (GenerateSchedule("u1", today, r) /\ resp'.calls = 1) =>
            /\ resp'.code = 200
            /\ resp'.time_blocks = <<>>
            /\ schedules'[Len(schedules')].time_blocks = <<>>
            /\ schedules'[Len(schedules')].total_work_hrs = 0

C10_Reschedule ==
    \A r \in C10_Replies["reschedule"] :
        (Reschedule("u1", r) /\ resp'.calls = 1) =>
            /\ resp'.code = 200
            /\ \E i \in ScheduleRows("u1", today) :
                  resp'.time_blocks = C10_Kept(schedules[i].time_blocks)
            /\ \A i \in ScheduleRows("u1", today) :
                  schedules'[i].time_blocks = resp'.time_blocks

C10_CreateGoal ==
    \A r \in C10_Replies["roadmap"] :
        CreateGoal("u1", "A", <<>>, r) =>
            /\ resp'.code = 200
            /\ goals'[Len(goals')].roadmap.kind = "array"
            /\ goals'[Len(goals')].roadmap.items = <<>>

C10_SuggestHabits ==
    \A r \in C10_Replies["habits"] :
        SuggestHabits("u1", r) =>
            /\ resp'.code = 200
            /\ resp'.result.kind = "array"
            /\ resp'.result.items = <<>>

C10_Simulate ==
    \A r \in C10_Replies["simulate"] :
        (Simulate("u1", r) /\ resp'.calls = 1) =>
            /\ resp'.code = 200
            /\ resp'.result.keys = {"K_scenario", "K_recommend"}
            /\ resp'.result.text = r.text

C10_Chat ==
    \A r \in C10_Replies["coach"] :
        Chat("u1", Sorry, <<>>, r) =>
            /\ resp'.code = 200
            /\ resp'.reply = r.text
            /\ resp'.suggested_actions = <<>>

C10_NonJsonYieldsDefault ==
    [][CASE resp'.op = "generate"    -> C10_Generate
         [] resp'.op = "reschedule"  -> C10_Reschedule
         [] resp'.op = "create_goal" -> C10_CreateGoal
         [] resp'.op = "suggest"     -> C10_SuggestHabits
         [] resp'.op = "simulate"    -> C10_Simulate
         [] resp'.op = "chat"        -> C10_Chat
         [] OTHER                    -> TRUE]_vars

C10_Witness ==
    /\ resp.op = "reschedule" /\ resp.code = 200 /\ resp.calls = 1
    /\ \E b \in {resp.time_blocks[k] : k \in 1..Len(resp.time_blocks)} :
          b.status = "pending"
    /\ \E i \in ScheduleRows("u1", today) :
          /\ schedules[i].ai_notes = "No change."
          /\ schedules[i].time_blocks = resp.time_blocks
    /\ \E i \in 1..Len(goals) : goals[i].roadmap = EmptyList
    /\ \E i \in 1..Len(chat_sessions) :
          LET h == chat_sessions[i].history
          IN  h[Len(h)].role = "assistant" /\ h[Len(h)].content \in NoJsonTexts

(***************************************************************************)
(* C11: every operation that is given a missing user, goal, schedule or    *)
(* block answers 404: a missing user in schedule generation, goal          *)
(* creation, habit suggestion, simulation and chat; a missing goal in      *)
(* progress update and delete; a missing schedule in get, reschedule and   *)
(* task update; a missing block in task update.                            *)
(***************************************************************************)
C11_MissingAnswers404 ==
    [][/\ (/\ resp'.op \in {"generate", "create_goal", "suggest", "simulate", "chat"}
           /\ resp'.user_id \notin users)
              => resp'.code = 404
       /\ (/\ resp'.op \in {"update_progress", "delete_goal"}
           /\ GoalRows(resp'.goal_id, resp'.user_id) = {})
              => resp'.code = 404
       /\ (/\ resp'.op \in {"reschedule", "update_task"}
           /\ ScheduleRows(resp'.user_id, today) = {})
              => resp'.code = 404
       /\ \A u \in UserIds, d \in ScheduleDates :
             (GetSchedule(u, d) /\ ScheduleRows(u, d) = {}) => resp'.code = 404
       /\ \A u \in UserIds, b \in {"b1", "b9"} :
             (/\ UpdateTaskStatus(u, b, "completed", ABSENT)
              /\ \A i \in ScheduleRows(u, today) :
                    FirstWithId(schedules[i].time_blocks, b, 1) = 0)
                => resp'.code = 404
      ]_vars

(***************************************************************************)
(* C12: an exception that is not a not-found condition (a failed remote    *)
(* model call, a model reply of the wrong shape) is caught at the request  *)
(* boundary and answered with 500 carrying the exception text, in schedule *)
(* generation, reschedule, goal creation, simulation, habit suggestion,    *)
(* progress summary and chat.                                              *)
(***************************************************************************)
C12_Caught500 == resp'.code = 500 /\ resp'.op \in HandlesException

C12_Failing(site) == {RemoteError, [ok |-> TRUE, text |-> Misshaped(site)]}

C12_ExceptionsAnswered500 ==
    [][\A u \in UserIds :
         /\ \A r \in C12_Failing("schedule") :
               (GenerateSchedule(u, today, r) /\ resp'.calls = 1) => C12_Caught500
         /\ \A r \in C12_Failing("reschedule") :
               (Reschedule(u, r) /\ resp'.calls = 1) => C12_Caught500
         /\ \A r \in C12_Failing("roadmap") :
               CreateGoal(u, "A", <<>>, r) => C12_Caught500
         /\ SuggestHabits(u, RemoteError) => C12_Caught500
         /\ (Simulate(u, RemoteError) /\ resp'.calls = 1) => C12_Caught500
         /\ \A r \in C12_Failing("coach") :
               Chat(u, Sorry, <<>>, r) => C12_Caught500
         /\ GetProgressSummary(u, "weekly", RemoteError) => C12_Caught500
      ]_vars

(***************************************************************************)
(* C13: generate_schedule for a user id with no stored profile fails with  *)
(* a not-found error before any call to the remote model and before any    *)
(* write: the stored schedules are the same after the call as before it.   *)
(***************************************************************************)
C13_UnknownUserNoCallNoWrite ==
    [][(resp'.op = "generate" /\ resp'.user_id \notin users) =>
          /\ resp'.code = 404
          /\ resp'.calls = 0
          /\ schedules' = schedules
          /\ UNCHANGED store
      ]_vars

C13_Witness ==
    /\ resp.op = "generate" /\ resp.code = 404 /\ resp.calls = 0
    /\ resp.user_id \notin users
    /\ schedules # <<>>

(***************************************************************************)
(* C14: after generate_schedule every block of the stored and of the       *)
(* returned schedule has a block_id: a block the model returned without    *)
(* one gets a fresh identifier, a block returned with one keeps it.        *)
(***************************************************************************)
C14_Ids_Before ==
    UNION {{schedules[i].time_blocks[k].block_id :
               k \in 1..Len(schedules[i].time_blocks)} : i \in 1..Len(schedules)}

C14_Ids(blocks) == [k \in 1..Len(blocks) |-> blocks[k].block_id]

\* per reply of the model, the blocks it gives
C14_Given == [t \in ScheduleTexts |-> parse_schedule(t).time_blocks]

C14_EveryBlockHasId ==
    [][(resp'.op = "generate" /\ schedules' # schedules) =>
         LET row    == schedules'[Len(schedules')]
             stored == row.time_blocks
         IN  \A t \in ScheduleTexts :
                GenerateSchedule(row.user_id, row.date, [ok |-> TRUE, text |-> t]) =>
                   /\ Len(stored) = Len(C14_Given[t])
                   /\ \A k \in 1..Len(stored) :
                         /\ stored[k].block_id # ABSENT
                         /\ C14_Given[t][k].block_id # ABSENT =>
                               stored[k].block_id = C14_Given[t][k].block_id
                         /\ C14_Given[t][k].block_id = ABSENT =>
                               /\ stored[k].block_id \notin C14_Ids_Before
                               /\ \A j \in 1..Len(stored) :
                                     j # k => stored[j].block_id # stored[k].block_id
                   /\ resp'.code = 200 =>
                         C14_Ids(resp'.time_blocks) = C14_Ids(stored)
      ]_vars

C14_Witness ==
    /\ resp.op = "generate" /\ resp.code = 200
    /\ \E k \in 1..Len(resp.time_blocks) : resp.time_blocks[k].block_id = "b4"
    /\ \E k \in 1..Len(resp.time_blocks) :
          resp.time_blocks[k].block_id \notin {"b1", "b2", "b3", "b4", "b5"}
    /\ \E i \in 1..Len(schedules) :
          C14_Ids(schedules[i].time_blocks) = C14_Ids(resp.time_blocks)

(***************************************************************************)
(* C15: a time block's status changes only from pending to one of          *)
(* in_progress, completed, skipped or rescheduled: no update_task_status   *)
(* call takes a block from a non-pending status to another status or back  *)
(* to pending.                                                             *)
(***************************************************************************)
C15_OnlyFromPending ==
    [][resp'.op = "update_task" =>
          \A i \in 1..Len(schedules) :
             \A k \in 1..Len(schedules[i].time_blocks) :
                LET old == schedules[i].time_blocks[k].status
                    new == schedules'[i].time_blocks[k].status
                IN  new # old =>
                       /\ old = "pending"
                       /\ new \in {"in_progress", "completed", "skipped",
                                   "rescheduled"}
      ]_vars

(***************************************************************************)
(* C16: every stored goal has progress_percent within [0,100] after any    *)
(* sequence of goal creations and progress updates.                        *)
(***************************************************************************)
C16_ProgressInRange ==
    \A i \in 1..Len(goals) :
        goals[i].progress_percent >= 0 /\ goals[i].progress_percent <= 100

(***************************************************************************)
(* C17: the stored chat history of a user is append-only across chat       *)
(* messages: after every successful api_chat call the history stored       *)
(* before the call is a prefix of the history stored after it, whatever    *)
(* conversation_history the request carries.                               *)
(***************************************************************************)
C17_HistoryAppendOnly ==
    [][(resp'.op = "chat" /\ resp'.code = 200) =>
          \A i \in 1..Len(chat_sessions) :
             \E j \in 1..Len(chat_sessions') :
                /\ chat_sessions'[j].session_id = chat_sessions[i].session_id
                /\ IsPrefix(chat_sessions[i].history, chat_sessions'[j].history)
      ]_vars

(***************************************************************************)
(* C18: when two requests race to write the same (user, date) schedule or  *)
(* the same chat session, both complete without a conflict error and the   *)
(* state read afterwards is the one written by the request whose write     *)
(* came last.                                                              *)
(***************************************************************************)
C18_SessionOf(table, user_id) ==
    table[CHOOSE i \in 1..Len(table) : table[i].user_id = user_id]

C18_LastWriteWins ==
    [][\* both complete without a conflict error
       /\ resp'.op \in {"generate", "chat"} /\ resp'.user_id \in users =>
             resp'.code = 200
       \* a write replaces what the session held
       /\ \A q \in inflight :
             EndChat(q, [ok |-> TRUE, text |-> Shaped("coach")]) =>
                LET h == C18_SessionOf(chat_sessions', q.user_id).history
                IN  /\ Len(h) = 2
                    /\ h[1].content = q.message
                    /\ h[2].content = resp'.reply
       \* a read gives what the last write left
       /\ resp'.op = "history" =>
             resp'.history =
                IF \E i \in 1..Len(chat_sessions) :
                      chat_sessions[i].user_id = resp'.user_id
                THEN C18_SessionOf(chat_sessions, resp'.user_id).history
                ELSE <<>>
       /\ (resp'.op = "get" /\ resp'.code = 200) =>
             resp'.schedule_id =
                schedules[CHOOSE i \in ScheduleRows(resp'.user_id, today) :
                             \A j \in ScheduleRows(resp'.user_id, today) : j <= i
                         ].schedule_id
      ]_vars

(***************************************************************************)
(* C19: the numeric fields of the progress summary (completion_rate,       *)
(* burnout_risk_score, time_allocation, goals_on_track, goals_at_risk,     *)
(* habit_streaks) depend only on the stored state: two summaries computed  *)
(* from the same stored state with different model replies for the insight *)
(* have equal values in all these fields.                                  *)
(***************************************************************************)
C19_Numeric(s) ==
    <<s.completion_rate, s.burnout_risk_score, s.time_allocation,
      s.goals_on_track, s.goals_at_risk, s.habit_streaks>>

C19_NumericFieldsIgnoreReply ==
    [][(resp'.op = "summary" /\ resp'.code = 200) =>
          \A r \in Remote(SummaryTexts) :
             \A s \in ProgressSummary(resp'.user_id, resp'.period, r) :
                s.code = 200 => C19_Numeric(s) = C19_Numeric(resp')
      ]_vars

C19_Witness ==
    /\ IsSummary
    /\ resp.ai_insights = <<"{", "}">>
    /\ resp.completion_rate > 0
    /\ resp.burnout_risk_score > 0
    /\ DOMAIN resp.time_allocation # {}

(***************************************************************************)
(* C20: the progress summary counts only schedules and check-ins dated     *)
(* within the trailing window (the last 7 days for weekly, the last 30 for *)
(* monthly, ending today): a schedule or check-in dated after today or     *)
(* before the window start does not change completion_rate,                *)
(* time_allocation or burnout_risk_score.  Stated as: the three fields of  *)
(* a summary are those computed from the rows dated from today - days to   *)
(* today alone.                                                            *)
(***************************************************************************)
C20_InWindow(d, days) == today - days <= d /\ d <= today

C20_Blocks(user_id, days) ==
    LET rows == SelectSeq(schedules, LAMBDA r :
                    r.user_id = user_id /\ C20_InWindow(r.date, days))
    IN  Flatten([i \in 1..Len(rows) |-> rows[i].time_blocks])

C20_Checkins(user_id, days) ==
    SelectSeq(daily_checkins, LAMBDA c :
        c.user_id = user_id /\ C20_InWindow(c.date, days))

C20_OnlyWindowCounts ==
    IsSummary =>
        LET days      == Days(resp.period)
            blocks    == C20_Blocks(resp.user_id, days)
            checkins  == C20_Checkins(resp.user_id, days)
            completed == Len(SelectSeq(blocks, LAMBDA b : b.status = "completed"))
            work      == category_minutes(blocks, "work")
                            + category_minutes(blocks, "study")
        IN  /\ resp.completion_rate \in completion_rate(completed, Len(blocks))
            /\ resp.time_allocation =
                  [cat \in Categories(blocks) |-> category_minutes(blocks, cat)]
            /\ resp.burnout_risk_score \in
                  burnout_risk(Sum(checkins, LAMBDA c : c.mood_score),
                               Sum(checkins, LAMBDA c : c.focus_score),
                               Len(SelectSeq(checkins,
                                      LAMBDA c : c.energy_level = "low")),
                               Len(checkins), work, days)

(***************************************************************************)
(* C21: deleting a goal removes only that goal's row, and only when it     *)
(* belongs to the given user: habits whose goal_id names the deleted goal  *)
(* and schedule blocks that reference it stay stored unchanged, still      *)
(* carrying the id of the goal that no longer exists.                      *)
(***************************************************************************)
C21_DeleteRemovesOnlyTheGoal ==
    [][resp'.op = "delete_goal" =>
          /\ goals' = SelectSeq(goals, LAMBDA g :
                          ~(g.goal_id = resp'.goal_id /\ g.user_id = resp'.user_id))
          /\ habits' = habits
          /\ schedules' = schedules
          /\ habit_logs' = habit_logs
      ]_vars

C21_Witness ==
    /\ resp.op = "delete_goal"
    /\ resp.goal_id \notin StoredGoalIds
    /\ \E i \in 1..Len(habits) : habits[i].goal_id = resp.goal_id
    /\ \E i \in 1..Len(schedules) : \E k \in 1..Len(schedules[i].time_blocks) :
          schedules[i].time_blocks[k].goal_id = resp.goal_id

(***************************************************************************)
(* C22: update_task_status changes a single block of today's schedule: it  *)
(* sets the status of the first block whose block_id matches and leaves    *)
(* every other block, and every schedule of another date or user,          *)
(* unchanged; when no schedule exists for today or no block matches it     *)
(* raises not-found and writes nothing.                                    *)
(***************************************************************************)
C22_OneBlock(old, new, k) ==
    /\ Len(new) = Len(old)
    /\ \A j \in 1..Len(old) : j # k => new[j] = old[j]
    /\ \A j \in 1..(k - 1) : old[j].block_id # old[k].block_id
    /\ new[k] = [old[k] EXCEPT !.status = new[k].status,
                               !.completion_note = new[k].completion_note]

C22_NoMatch(user_id, block_id) ==
    \/ ScheduleRows(user_id, today) = {}
    \/ \E i \in ScheduleRows(user_id, today) :
          FirstWithId(schedules[i].time_blocks, block_id, 1) = 0

C22_SingleBlockChanged ==
    [][resp'.op = "update_task" =>
          /\ UNCHANGED <<users, goals, habits, habit_logs, daily_checkins,
                         chat_sessions>>
          /\ Len(schedules') = Len(schedules)
          /\ IF resp'.code = 200
             THEN \E i \in ScheduleRows(resp'.user_id, today) :
                     /\ \A j \in 1..Len(schedules) :
                           j # i => schedules'[j] = schedules[j]
                     /\ schedules'[i] =
                           [schedules[i] EXCEPT
                               !.time_blocks = schedules'[i].time_blocks]
                     /\ \E k \in 1..Len(schedules[i].time_blocks) :
                           C22_OneBlock(schedules[i].time_blocks,
                                        schedules'[i].time_blocks, k)
             ELSE schedules' = schedules
          /\ \A u \in UserIds, b \in TaskBlockIds :
                UpdateTaskStatus(u, b, "completed", "note") =>
                   IF resp'.code = 404
                   THEN C22_NoMatch(u, b)
                   ELSE \E i \in ScheduleRows(u, today) :
                           FirstWithId(schedules[i].time_blocks, b, 1) # 0
      ]_vars

C22_Witness ==
    /\ resp.op = "update_task" /\ resp.code = 200
    /\ \E i \in ScheduleRows(resp.user_id, today) :
          /\ schedules[i].schedule_id = resp.schedule_id
          /\ \E k \in 1..Len(schedules[i].time_blocks) :
                /\ schedules[i].time_blocks[k].status = "completed"
                /\ \E j \in (k + 1)..Len(schedules[i].time_blocks) :
                      /\ schedules[i].time_blocks[j].block_id =
                            schedules[i].time_blocks[k].block_id
                      /\ schedules[i].time_blocks[j].status = "pending"
    /\ \E j \in 1..Len(schedules) :
          schedules[j].user_id # resp.user_id \/ schedules[j].date # today

(***************************************************************************)
(* C23: in every operation that calls the remote model and then writes     *)
(* (generate_schedule, create_goal, adaptive_reschedule_today, api_chat)   *)
(* the write happens only after the model call has returned: when the      *)
(* remote call fails the store is left exactly as it was, and the model is *)
(* called at most once per request.                                        *)
(***************************************************************************)
C23_Callers == {"generate", "reschedule", "create_goal", "chat"}

C23_RemoteFails ==
    \/ GenerateSchedule("u1", today, RemoteError)
    \/ Reschedule("u1", RemoteError)
    \/ CreateGoal("u1", "A", <<>>, RemoteError)
    \/ \E h \in Histories : Chat("u1", Sorry, h, RemoteError)

C23_WriteAfterOneCall ==
    [][resp'.op \in C23_Callers =>
          /\ resp'.calls \in {0, 1}
          /\ store' # store => resp'.calls = 1
          /\ C23_RemoteFails => store' = store
      ]_vars

C23_Witness ==
    /\ resp.op = "chat" /\ resp.code = 500 /\ resp.calls = 1
    /\ chat_sessions # <<>>
    /\ schedules # <<>>
    /\ goals # <<>>

(***************************************************************************)
(* C24: generate_schedule commits the new schedule row before it builds    *)
(* the typed TimeBlock records: when the model returns valid JSON in which *)
(* a block lacks a required field, the request ends in a server error but  *)
(* the row is already stored, whereas adaptive_reschedule_today builds the *)
(* typed blocks before its write, so a reply of that kind leaves the       *)
(* stored schedule unchanged.                                              *)
(***************************************************************************)
C24_Reply == [ok |-> TRUE, text |-> Untitled]

C24_Stored(code) ==
    /\ \A d \in ScheduleDates :
          (GenerateSchedule("u1", d, C24_Reply) /\ "u1" \in users) =>
             /\ resp'.code = code
             /\ Len(schedules') = Len(schedules) + 1
             /\ SubSeq(schedules', 1, Len(schedules)) = schedules
             /\ LET row == schedules'[Len(schedules')]
                IN  /\ row.user_id = "u1" /\ row.date = d
                    /\ row.time_blocks = <<BlockOf("B_notitle")>>
    /\ (Reschedule("u1", C24_Reply) /\ resp'.calls = 1) =>
          /\ resp'.code \in 400..599
          /\ schedules' = schedules

\* the statement as given: the generate request ends in a server error
C24_RowStoredServerError == [][C24_Stored(500)]_vars

\* what the code does: the row is stored and the answer is 404
C24_RowStoredNotFound == [][C24_Stored(404)]_vars

(***************************************************************************)
(* C25: when adaptive_reschedule_today finds a missed block, a block that  *)
(* is in none of the three classes (status in_progress or rescheduled, or  *)
(* status skipped with an end time not before now) is neither sent to the  *)
(* model nor carried over, so it is absent from the stored schedule        *)
(* afterwards unless the model's reply contains it; when the reply is not  *)
(* JSON the missed blocks are absent as well, the stored list being        *)
(* completed blocks plus remaining pending blocks.                         *)
(***************************************************************************)
C25_Unclassified(b) ==
    \/ b.status \in {"in_progress", "rescheduled"}
    \/ b.status = "skipped" /\ b.end_time >= now

C25_IsMissed(b) == b.status \in {"pending", "skipped"} /\ b.end_time < now

C25_IsRemaining(b) == b.status = "pending" /\ b.end_time >= now

C25_Range(s) == {s[k] : k \in 1..Len(s)}

\* per reply, the blocks the reply contains, none when it is not JSON
C25_Given ==
    [t \in MissedReplies |->
        IF json_loads(Clean(t)).kind = "error" THEN <<>>
        ELSE TimeBlocks(json_loads(Clean(t)).time_blocks)]

C25_OnlyClassifiedCarried ==
    [][(resp'.op = "reschedule" /\ resp'.code = 200 /\ resp'.calls = 1) =>
          \E i \in ScheduleRows(resp'.user_id, today) :
             LET old == TimeBlocks(schedules[i].time_blocks)
                 new == schedules'[i].time_blocks
             IN  \A t \in MissedReplies :
                    Reschedule(resp'.user_id, [ok |-> TRUE, text |-> t]) =>
                       /\ \E k \in 1..Len(old) : C25_IsMissed(old[k])
                       /\ \A k \in 1..Len(old) :
                             (C25_Unclassified(old[k]) /\ old[k] \in C25_Range(new))
                                => old[k] \in C25_Range(C25_Given[t])
                       /\ json_loads(Clean(t)).kind = "error" =>
                             /\ \A k \in 1..Len(old) :
                                   C25_IsMissed(old[k]) => old[k] \notin C25_Range(new)
                             /\ new = SelectSeq(old, LAMBDA b : b.status = "completed")
                                         \o SelectSeq(old, C25_IsRemaining)
      ]_vars

\* at noon, the list [b4] after a call: b1 was missed, b2 in no class, and the
\* reply was not JSON
C25_Witness ==
    /\ resp.op = "reschedule" /\ resp.code = 200 /\ resp.calls = 1
    /\ Len(resp.time_blocks) = 1
    /\ resp.time_blocks[1].status = "completed"
    /\ \E i \in ScheduleRows(resp.user_id, today) :
          schedules[i].time_blocks = resp.time_blocks

(***************************************************************************)
(* C26: update_task_status reads the whole block list, changes one block   *)
(* and writes the whole list back with no transaction or version check:    *)
(* two concurrent updates to different blocks of the same schedule can     *)
(* interleave so that the stored list afterwards holds only one of the two *)
(* status changes.  The formula: a write stores the list its request read, *)
(* with that request's block changed, whatever the table holds by then;    *)
(* the witness is the state after two answered updates with one change     *)
(* lost.                                                                   *)
(***************************************************************************)
C26_Written(q) ==
    [k \in 1..Len(q.time_blocks) |->
        IF k = FirstWithId(q.time_blocks, q.block_id, 1)
        THEN [q.time_blocks[k] EXCEPT !.status = q.status]
        ELSE q.time_blocks[k]]

C26_WholeListWrittenBack ==
    [][\A q \in inflight :
          (q.op = "update" /\ q \notin inflight') =>
             \A i \in 1..Len(schedules) :
                schedules'[i] =
                   IF schedules[i].schedule_id = q.schedule_id
                   THEN [schedules[i] EXCEPT !.time_blocks = C26_Written(q)]
                   ELSE schedules[i]
      ]_vars

C26_StatusOf(blocks, block_id) == blocks[FirstWithId(blocks, block_id, 1)].status

C26_Witness ==
    \E p \in inflight, q \in inflight :
       /\ p.op = "updated" /\ q.op = "updated" /\ p.code = 200 /\ q.code = 200
       /\ p.schedule_id = q.schedule_id /\ p.block_id # q.block_id
       /\ \E i \in 1..Len(schedules) :
             /\ schedules[i].schedule_id = p.schedule_id
             /\ C26_StatusOf(schedules[i].time_blocks, p.block_id) = "pending"
             /\ C26_StatusOf(schedules[i].time_blocks, q.block_id) = q.status

(***************************************************************************)
(* C27: a habit check-in updates the streak of the habit named by habit_id *)
(* whatever user id the request carries, and records a log row even when   *)
(* no such habit exists: a check-in issued for user U changes the          *)
(* streak_count of a habit owned by another user V, unlike habit delete    *)
(* and goal update/delete, which only touch rows whose user_id matches.    *)
(***************************************************************************)
C27_OthersRowsKept(old, new, user_id) ==
    SelectSeq(new, LAMBDA r : r.user_id # user_id)
        = SelectSeq(old, LAMBDA r : r.user_id # user_id)

C27_CheckinIgnoresOwner ==
    [][CASE resp'.op = "checkin" ->
               /\ Len(habit_logs') = Len(habit_logs) + 1
               /\ habit_logs'[Len(habit_logs')].habit_id = resp'.habit_id
               /\ habit_logs'[Len(habit_logs')].user_id = resp'.user_id
               /\ Len(habits') = Len(habits)
               /\ \A i \in 1..Len(habits) :
                     IF habits[i].habit_id # resp'.habit_id
                     THEN habits'[i] = habits[i]
                     ELSE habits'[i].streak_count =
                             IF resp'.completed THEN habits[i].streak_count + 1 ELSE 0
          [] resp'.op = "delete_habit" ->
               C27_OthersRowsKept(habits, habits', resp'.user_id)
          [] resp'.op \in {"update_progress", "delete_goal"} ->
               C27_OthersRowsKept(goals, goals', resp'.user_id)
          [] OTHER -> TRUE
      ]_vars

C27_Witness ==
    /\ resp.op = "checkin" /\ resp.user_id = "u1"
    /\ \E i \in 1..Len(habits) :
          /\ habits[i].habit_id = resp.habit_id
          /\ habits[i].user_id = "u2"
          /\ habits[i].streak_count > 0
          /\ \A k \in 1..Len(habit_logs) :
                habit_logs[k].habit_id = resp.habit_id => habit_logs[k].user_id = "u1"
    /\ \E k \in 1..Len(habit_logs) : HabitRows(habit_logs[k].habit_id) = {}
    /\ goals # <<>>

(***************************************************************************)
(* C28: the streak increment of a habit check-in is a single atomic        *)
(* storage statement: N concurrent check-ins with completed=true on the    *)
(* same habit, in any interleaving, leave streak_count exactly N higher    *)
(* than before, and streak_count is never negative in any reachable state. *)
(***************************************************************************)
C28_Checked(habit_id) ==
    {q \in inflight : q.op = "checked" /\ q.habit_id = habit_id}

C28_CountsEveryCheckin ==
    \A i \in 1..Len(habits) :
       /\ habits[i].streak_count >= 0
       /\ (\A q \in C28_Checked(habits[i].habit_id) : q.completed) =>
             habits[i].streak_count = Cardinality(C28_Checked(habits[i].habit_id))

C28_IncrementIsAtomic ==
    /\ []C28_CountsEveryCheckin
    /\ [][\A q \in inflight :
             (q.op = "habit_checkin" /\ q \notin inflight' /\ q.completed) =>
                \A i \in 1..Len(habits) :
                   habits'[i].streak_count =
                      habits[i].streak_count
                         + (IF habits[i].habit_id = q.habit_id THEN 1 ELSE 0)
         ]_vars

C28_Witness ==
    \E p \in inflight, q \in inflight :
       /\ p.rid # q.rid /\ p.op = "checked" /\ q.op = "checked"
       /\ p.completed /\ q.completed
       /\ p.habit_id = q.habit_id
       /\ q.rid \in p.during
       /\ \E i \in 1..Len(habits) :
             habits[i].habit_id = p.habit_id /\ habits[i].streak_count = 2

====
